---- MODULE Spec2Model ----
(***************************************************************************)
(* Self-update engine of monitor-profile-swapper (updater.py) and the      *)
(* application entry points that drive it (monitor_swapper.py).            *)
(*                                                                         *)
(* Part 1: archive member names, path arithmetic and safe_extract.         *)
(***************************************************************************)
EXTENDS Integers, Sequences, FiniteSets, TLC

\* ------------------------------------------------------------------ bounds
MaxDepth == 2      \* separator-delimited parts in one archive member name
MaxMembers == 2    \* members read from one archive

\* --------------------------------------------------------------- variables
VARIABLES
    platform,   \* "posix" or "win32": decides os.path's separator and drives
    exStatus,   \* safe_extract: "idle", "running", "returned", "traversal", "oserror"
    exPos,      \* safe_extract: number of members the loop has reached so far
    exCount,    \* safe_extract: number of members handed to zip_ref.extract
    exLast,     \* safe_extract: the member the loop reached last, with its verdict
    exRejected, \* safe_extract: position of the member that was rejected, or 0
    tree,       \* entries on disk below the extraction root written by extraction
    frozen,     \* getattr(sys, 'frozen', False): a standalone build
    release,    \* perform_update's argument release_data
    pc,         \* perform_update: the stage about to run, or "returned"/"raised"/"exited"
    result,     \* perform_update: "none" while running, then "True"/"False"/"raised"/"exit"
    stages,     \* perform_update: the stages entered so far, in order
    failedAt,   \* perform_update: the stage that failed, or "none"
    plan,       \* perform_update's locals that a later stage still reads
    zipFile,    \* BASE_DIR/update_pkg.zip: "absent", "stale", "partial", "complete"
    zipBody,    \* what the downloaded package holds: "notzip", "corrupt", "zip"
    tmpDir,     \* BASE_DIR/update_tmp: "absent", "stale", "fresh"
    batWritten, \* the relauncher script was written by this run
    batLaunched,\* os.startfile was called on the relauncher script and succeeded
    netLog,     \* the URLs this run of perform_update has requested, in order
    mismatch,   \* the package's SHA-256 was compared with a checksum it differs from
    writeTest,  \* the file .update_write_test of the install directory: "absent" or "left"
    dlRaised,   \* how the call of _download_with_progress failed, or NoFailure; of a
                \* call that returned, its counters when the step is run on its own
    flRet,      \* what _flatten_nested_folder returned: "none", "True" or "False"
    dlInput,    \* the response the download step is run against on its own, or NoInput
    ckPc,       \* check_for_updates: "idle", "request", "body", "done"
    ckCurrent,  \* check_for_updates: CURRENT_VERSION
    ckResp,     \* check_for_updates: the body the metadata request answers with
    ckAttempt,  \* _request_with_retry: the loop variable attempt
    ckSleeps,   \* _request_with_retry: number of time.sleep calls so far
    ckError,    \* _request_with_retry: the failure it gave up with, or "none"
    ckMax,      \* _request_with_retry: the argument max_retries
    ckLog,      \* _request_with_retry: the outcomes of the requests issued, in order
    ckResult,   \* check_for_updates: "none" while running, then "None" or "data"
    mainPc,     \* main thread: "idle", "autocheck", "autoupdate", "startup-done", "tray", "exited"
    alive,      \* the application process exists
    updateLock, \* update_lock is held
    worker,     \* position of each run_check thread
    ran,        \* the run_check threads that have called check_for_updates
    handoff,    \* some perform_update launched the relauncher and called sys.exit
    lateStep,   \* an application step was executed after the relauncher's launch
    ticks,      \* passes of the monitoring loop
    env,        \* the environment variables TEMP and TMP of the application
    batPath,    \* where monitor_swapper_updater.bat was written, or NoPath
    rlPc,       \* the relauncher script's position
    roboExit,   \* the script's ROBO_EXIT, -1 before robocopy has run
    exePresent, \* the main executable exists at its path
    stagedZip,  \* BASE_DIR/update_pkg.zip as the script and the cleanup find it
    stagedTmp,  \* BASE_DIR/update_tmp as the script and the cleanup find it
    relaunched, \* the script has started the application
    rlExit,     \* the script's exit code, -1 while it runs
    clPc,       \* cleanup_update_artifacts: its position
    zip_cleaned,    \* cleanup_update_artifacts: its local zip_cleaned
    folder_cleaned, \* cleanup_update_artifacts: its local folder_cleaned
    clRet,      \* cleanup_update_artifacts: the value returned, "none" before
    candidate,  \* _is_valid_checksum: its argument
    csPc,       \* checksum parsing: its position
    csValid,    \* _is_valid_checksum: the value returned, "none" before
    csExpected, \* perform_update: its local expected_checksum
    shFile,     \* _verify_checksum: the bytes of the file at file_path
    shExpected, \* _verify_checksum: its argument expected_hash
    shDigests,  \* the values _calculate_sha256 has returned for the file
    shRet,      \* _verify_checksum: the value returned, "none" before
    urlArg,     \* _is_valid_url: its argument
    urlRet,     \* _is_valid_url: the value returned, "none" before
    mxName,     \* SingleInstanceMutex: each object's mutex_name
    mxThread,   \* the thread that uses each SingleInstanceMutex object
    mxHandle,   \* SingleInstanceMutex: whether mutex_handle holds a handle
    mxOpen,     \* kernel: the open handles of the mutex of each name
    mxOwner,    \* kernel: the thread owning the mutex of each name, 0 if none
    mxLog,      \* the calls of acquire() and release() made, with their results
    cfgIn,      \* validate_config: its argument config
    cfgOut,     \* validate_config: what the call gave, NoOutcome before
    scLines,    \* checksum sidecar: the lines of the response text
    scAsset,    \* checksum sidecar: perform_update's local asset_name
    scExpected, \* checksum sidecar: expected_checksum after the parsing
    scPc        \* checksum sidecar: "idle", "fetched" or "parsed"

exVars == <<exStatus, exPos, exCount, exLast, exRejected, tree>>
puVars == <<frozen, release, pc, result, stages, failedAt, plan, zipFile, zipBody,
            tmpDir, batWritten, batLaunched, netLog, mismatch, writeTest, dlRaised, dlInput, flRet>>
ckVars == <<ckPc, ckCurrent, ckResp, ckAttempt, ckSleeps, ckError, ckMax, ckLog, ckResult>>
appVars == <<mainPc, alive, updateLock, worker, ran, handoff, lateStep, ticks>>
clVars == <<clPc, zip_cleaned, folder_cleaned, clRet>>
csVars == <<candidate, csPc, csValid, csExpected>>
shVars == <<shFile, shExpected, shDigests, shRet>>
urlVars == <<urlArg, urlRet>>
mxVars == <<mxName, mxThread, mxHandle, mxOpen, mxOwner, mxLog>>
cfgVars == <<cfgIn, cfgOut>>
scVars == <<scLines, scAsset, scExpected, scPc>>
moreVars == <<shVars, urlVars, mxVars, cfgVars, scVars>>
rlVars == <<env, batPath, rlPc, roboExit, exePresent, stagedZip, stagedTmp, relaunched,
            rlExit>>
auxVars == <<rlVars, clVars, csVars, moreVars>>

\* ------------------------------------------------------------- path model
\* A member name is a drive prefix followed by parts joined by one kind of
\* separator: [drive |-> "D:", parts |-> <<"..", "a">>, sep |-> "/"] is "D:../a".
Parts == {"", ".", "..", "a", "b"}
Seps == {"/", "\\"}
Drives == {"", "D:"}
Platforms == {"posix", "win32"}

PartSeqs == UNION {[1..n -> Parts] : n \in 1..MaxDepth}

Members == [drive : Drives, parts : PartSeqs, sep : Seps, symlink : BOOLEAN]

NoMember == [drive |-> "", parts |-> <<>>, sep |-> "/", symlink |-> FALSE]

\* The install directory and the extraction root below it; on win32 both
\* live on drive C:.
BaseDir == <<"inst">>
ExtractFolder == BaseDir \o <<"update_tmp">>
RootDrive == "C:"

RECURSIVE JoinStr(_, _)
JoinStr(parts, sep) ==
    IF Len(parts) = 1 THEN parts[1]
    ELSE parts[1] \o sep \o JoinStr(Tail(parts), sep)

\* member.filename as safe_extract reads it. ZipInfo turns os.sep into "/"
\* on win32, so there the separator kind does not survive.
FileName(m) == m.drive \o JoinStr(m.parts, m.sep)

IsPrefix(p, q) == Len(p) <= Len(q) /\ SubSeq(q, 1, Len(p)) = p

\* filename.split(os.sep-or-"/") on the running platform.
NameComps(pf, m) ==
    IF pf = "win32" THEN m.parts
    ELSE IF m.sep = "/" THEN <<m.drive \o m.parts[1]>> \o Tail(m.parts)
    ELSE <<FileName(m)>>

\* Whether the name is rooted (starts with a separator after its drive).
IsRooted(pf, m) ==
    /\ Len(m.parts) >= 2
    /\ m.parts[1] = ""
    /\ IF pf = "win32" THEN TRUE ELSE m.drive = "" /\ m.sep = "/"

\* os.path.normpath on an absolute component list.
RECURSIVE NormAbs(_, _)
NormAbs(done, rest) ==
    IF rest = <<>> THEN done
    ELSE LET c == Head(rest) IN
         IF c = "" \/ c = "." THEN NormAbs(done, Tail(rest))
         ELSE IF c = ".." THEN
              NormAbs(IF done = <<>> THEN <<>> ELSE SubSeq(done, 1, Len(done) - 1),
                      Tail(rest))
         ELSE NormAbs(Append(done, c), Tail(rest))

\* os.path.abspath(os.path.normpath(os.path.join(target_dir, filename))):
\* the drive and the normalized components of the member's destination.
MemberPath(pf, m) ==
    LET comps == NameComps(pf, m)
        drive == IF pf = "win32" /\ m.drive # "" THEN m.drive ELSE RootDrive
        joined == IF IsRooted(pf, m) \/ drive # RootDrive
                  THEN comps ELSE ExtractFolder \o comps
    IN [drive |-> drive, comps |-> NormAbs(<<>>, joined)]

\* os.path.commonpath raises ValueError for paths on different drives.
CommonPathRaises(p) == p.drive # RootDrive

\* os.path.commonpath([target_dir, member_path]) != target_dir
CommonPathDiffers(p) == ~IsPrefix(ExtractFolder, p.comps)

IsBlankName(m) == FileName(m) = ""

\* not filename.strip("/\\")
IsOnlySeparators(m) == \A i \in 1..Len(m.parts) : m.parts[i] = ""

\* safe_extract without its commonpath test.
NoTraversalCheck(pf, m) ==
    IF IsBlankName(m) THEN "traversal"
    ELSE IF m.drive = "" /\ IsOnlySeparators(m) THEN "traversal"
    ELSE IF m.symlink THEN "traversal"
    ELSE "extract"

\* safe_extract without its test of external_attr.
NoSymlinkCheck(pf, m) ==
    IF IsBlankName(m) THEN "traversal"
    ELSE IF m.drive = "" /\ IsOnlySeparators(m) THEN "traversal"
    ELSE IF CommonPathRaises(MemberPath(pf, m)) THEN "traversal"
    ELSE IF CommonPathDiffers(MemberPath(pf, m)) THEN "traversal"
    ELSE "extract"

\* The checks safe_extract makes on one member, in the code's order.
MemberVerdict(pf, m) ==
    IF IsBlankName(m) THEN "traversal"
    ELSE IF m.drive = "" /\ IsOnlySeparators(m) THEN "traversal"
    ELSE IF CommonPathRaises(MemberPath(pf, m)) THEN "traversal"
    ELSE IF CommonPathDiffers(MemberPath(pf, m)) THEN "traversal"
    ELSE IF m.symlink THEN "traversal"
    ELSE "extract"

\* ---------------------------------------------------- zip_ref.extract model
\* ZipFile._extract_member: the drive is dropped, the name is split, and the
\* parts "", "." and ".." are discarded before joining to the target.
ArcParts(pf, m) ==
    LET comps == IF pf = "win32" THEN m.parts
                 ELSE IF m.sep = "/" THEN NameComps(pf, m) ELSE <<FileName(m)>>
    IN SelectSeq(comps, LAMBDA c : c \notin {"", ".", ".."})

\* ZipInfo.is_dir(): the name ends with "/".
IsDirMember(pf, m) ==
    /\ Len(m.parts) >= 2
    /\ m.parts[Len(m.parts)] = ""
    /\ (pf = "win32" \/ m.sep = "/")

TargetPath(pf, m) == ExtractFolder \o ArcParts(pf, m)

KindOf(t, p) ==
    IF p = ExtractFolder THEN "dir"
    ELSE IF \E e \in t : e.path = p
         THEN (CHOOSE e \in t : e.path = p).kind
         ELSE "none"

ProperPrefixes(p) == {SubSeq(p, 1, n) : n \in (Len(ExtractFolder) + 1)..(Len(p) - 1)}

\* Whether the write raises OSError: a parent is a file, a file would replace
\* a directory, or a directory would replace a file.
ExtractRaises(t, pf, m) ==
    LET p == TargetPath(pf, m) IN
    \/ \E q \in ProperPrefixes(p) : KindOf(t, q) = "file"
    \/ ~IsDirMember(pf, m) /\ KindOf(t, p) = "dir"
    \/ IsDirMember(pf, m) /\ KindOf(t, p) = "file"

\* The tree after zip_ref.extract(member, target_dir) succeeded.
ExtractInto(t, pf, m) ==
    LET p == TargetPath(pf, m)
        parents == {[path |-> q, kind |-> "dir"] : q \in ProperPrefixes(p)}
        self == IF p = ExtractFolder THEN {}
                ELSE {[path |-> p, kind |-> IF IsDirMember(pf, m) THEN "dir" ELSE "file"]}
    IN t \cup parents \cup self

\* ------------------------------------------------------------ safe_extract
\* One iteration of "for member in zip_ref.infolist()".
ExtractMember(m) ==
    /\ exStatus = "running"
    /\ exPos < MaxMembers
    /\ exPos' = exPos + 1
    /\ LET v == MemberVerdict(platform, m) IN
       /\ exLast' = [m |-> m, verdict |-> v]
       /\ IF v = "traversal"
          THEN /\ exStatus' = "traversal"
               /\ exRejected' = exPos + 1
               /\ UNCHANGED <<exCount, tree>>
          ELSE /\ exCount' = exCount + 1
               /\ UNCHANGED exRejected
               /\ IF ExtractRaises(tree, platform, m)
                  THEN exStatus' = "oserror" /\ UNCHANGED tree
                  ELSE exStatus' = "running" /\ tree' = ExtractInto(tree, platform, m)
    /\ UNCHANGED <<platform, puVars>>

\* The archive has no further member: the loop ends and safe_extract returns.
ExtractEnd ==
    /\ exStatus = "running"
    /\ exStatus' = "returned"
    /\ UNCHANGED <<platform, exPos, exCount, exLast, exRejected, tree, puVars>>

\* ================================================================ Part 2
\* perform_update(release_data): the update orchestrator.

MaxAssets == 2     \* entries in the release's asset list
MaxLines == 2      \* lines in the checksum sidecar

\* ------------------------------------------------------------ release data
Missing == "<missing>"        \* the key is not in the dict
NonString == "<non-string>"   \* a value of another type than str

GoodUrl == "https://github.com/o/r/releases/download/v2/pkg"
SumUrl == "https://github.com/o/r/releases/download/v2/sums"
BadUrl == "http://example.com/pkg"
LookalikeUrl == "https://evilgithub.com/o/r/releases/download/v2/pkg"

\* urlparse(url): the scheme, the network location and the path. The network
\* location is kept as the pieces it is spelled from, cut so that a trailing
\* "github.com" or "githubusercontent.com" is a piece of its own.
UrlParse(url) ==
    CASE url = GoodUrl ->
           [scheme |-> "https", netloc |-> <<"github.com">>,
            path |-> "/o/r/releases/download/v2/pkg"]
      [] url = SumUrl ->
           [scheme |-> "https", netloc |-> <<"github.com">>,
            path |-> "/o/r/releases/download/v2/sums"]
      [] url = BadUrl ->
           [scheme |-> "http", netloc |-> <<"example.com">>, path |-> "/pkg"]
      [] url = LookalikeUrl ->
           [scheme |-> "https", netloc |-> <<"evil", "github.com">>,
            path |-> "/o/r/releases/download/v2/pkg"]
      [] OTHER -> [scheme |-> "", netloc |-> <<>>, path |-> ""]

\* parsed.netloc.endswith(suffix)
NetlocEndsWith(netloc, suffix) == netloc # <<>> /\ netloc[Len(netloc)] = suffix

\* _is_valid_url(url); a url that is None or no string is the model's
\* "<None>" or Missing.
IsValidUrl(url) ==
    /\ url \notin {"<None>", Missing, ""}
    /\ LET parsed == UrlParse(url) IN
       /\ parsed.scheme = "https"
       /\ \/ NetlocEndsWith(parsed.netloc, "github.com")
          \/ NetlocEndsWith(parsed.netloc, "githubusercontent.com")
       /\ parsed.path \notin {"", "/"}

ValidUrls == {url \in {GoodUrl, SumUrl, BadUrl, LookalikeUrl} : IsValidUrl(url)}

AssetNames == {"Release.zip", "Monitor-Profile-Swapper.zip", "source.zip", "sha256.txt",
               NonString}
AssetUrls == {GoodUrl, BadUrl, LookalikeUrl, Missing}

\* One entry of release_data["assets"]: a dict, or something that is no dict.
Assets == [isDict : {TRUE}, name : AssetNames, url : AssetUrls]
              \cup {[isDict |-> FALSE, name |-> Missing, url |-> Missing]}

AssetLists == UNION {[1..n -> Assets] : n \in 0..MaxAssets}

\* release_data["assets"]: absent, null, of a type that is no list, or a list.
AssetsValues == [kind : {"missing", "null", "non-list"}, items : {<<>>}]
                    \cup [kind : {"list"}, items : AssetLists]

\* release_data["tag_name"]
TagValues == {Missing, "", NonString, "v2.0.0;calc", "v2.0.0\n", "v2.0.0"}

\* The characters of a tag string.
TagChars(tag) ==
    CASE tag = "v2.0.0"      -> <<"v", "2", ".", "0", ".", "0">>
      [] tag = "v2.0.0\n"    -> <<"v", "2", ".", "0", ".", "0", "\n">>
      [] tag = "v2.0.0;calc" -> <<"v", "2", ".", "0", ".", "0", ";", "c", "a", "l", "c">>
      [] OTHER               -> <<>>

\* The characters of the class [a-zA-Z0-9._-] that tags are made of here.
SafeChars == {"v", "c", "a", "l", "0", "2", ".", "_", "-"}

\* re.match(r'^[a-zA-Z0-9._-]+$', tag): one or more characters of the class,
\* then the end of the string or a newline that ends the string.
TagMatches(tag) ==
    LET cs   == TagChars(tag)
        n    == Len(cs)
        body == IF n > 0 /\ cs[n] = "\n" THEN SubSeq(cs, 1, n - 1) ELSE cs
    IN /\ body # <<>>
       /\ \A i \in 1..Len(body) : body[i] \in SafeChars

NoAssets == [kind |-> "missing", items |-> <<>>]

\* release_data: something that is no dict, or a dict.
Releases == {[isDict |-> FALSE, tag |-> Missing, assets |-> NoAssets]}
                \cup [isDict : {TRUE}, tag : TagValues, assets : AssetsValues]

\* The value "release" takes once perform_update has read what it needs.
Consumed == [isDict |-> TRUE, tag |-> "v2.0.0", assets |-> NoAssets]

\* _validate_release_data(release_data)[0]
ValidateReleaseData(r) ==
    /\ r.isDict
    /\ r.tag # Missing
    /\ r.tag # "" /\ r.tag # NonString
    /\ TagMatches(r.tag)
    /\ r.assets.kind \in {"missing", "null", "list"}

\* name.lower() in ('sha256.txt', 'checksums.txt', 'sha256sums.txt') or
\* name.endswith('.sha256')
IsChecksumName(n) == n \in {"sha256.txt"}

\* name.endswith(".zip")
EndsWithZip(n) == n \in {"Release.zip", "Monitor-Profile-Swapper.zip", "source.zip"}

\* "release" in name.lower() or REPO_NAME.lower() in name.lower()
IsPreferredName(n) == n \in {"Release.zip", "Monitor-Profile-Swapper.zip"}

None == "<None>"

NoChecksum == [val |-> "none", upper |-> FALSE]

NoPlan == [asset_url |-> None, asset_name |-> None, fallback_url |-> None,
           fallback_name |-> None, checksum_url |-> None,
           expected_checksum |-> NoChecksum, raised |-> FALSE]

\* The body of "for asset in release_data.get('assets', [])" for one asset.
ResolveAsset(st, a) ==
    IF st.raised THEN st
    ELSE IF ~a.isDict THEN [st EXCEPT !.raised = TRUE]
    ELSE IF a.name = NonString THEN [st EXCEPT !.raised = TRUE]
    ELSE LET name == IF a.name = Missing THEN "" ELSE a.name IN
         IF IsChecksumName(name)
         THEN [st EXCEPT !.checksum_url = IF a.url = Missing THEN None ELSE a.url]
         ELSE IF EndsWithZip(name)
         THEN IF IsPreferredName(name)
              THEN IF a.url = Missing THEN [st EXCEPT !.raised = TRUE]
                   ELSE [st EXCEPT !.asset_url = a.url, !.asset_name = name]
              ELSE IF st.fallback_url = None
              THEN IF a.url = Missing THEN [st EXCEPT !.raised = TRUE]
                   ELSE [st EXCEPT !.fallback_url = a.url, !.fallback_name = name]
              ELSE st
         ELSE st

RECURSIVE ResolveLoop(_, _)
ResolveLoop(st, assets) ==
    IF assets = <<>> THEN st
    ELSE ResolveLoop(ResolveAsset(st, Head(assets)), Tail(assets))

\* Lines 562-593: the asset loop and the fallback choice.
ResolveAssets(r) ==
    IF r.assets.kind = "null" THEN [NoPlan EXCEPT !.raised = TRUE]
    ELSE LET st == ResolveLoop(NoPlan, r.assets.items) IN
         IF ~st.raised /\ st.asset_url = None /\ st.fallback_url # None
         THEN [st EXCEPT !.asset_url = st.fallback_url, !.asset_name = st.fallback_name]
         ELSE st

\* --------------------------------------------------------- checksum sidecar
\* A checksum token: the digest it spells and whether it is in upper case;
\* "bad" is a token that is no 64-digit hex string.
Digests == {"h1", "h2"}
Checksums == [val : Digests \cup {"bad"}, upper : BOOLEAN]

\* _is_valid_checksum(checksum)
IsValidChecksum(c) == c.val \in Digests

\* str.lower() on a checksum token
Lower(c) == [c EXCEPT !.upper = FALSE]

\* The file names a sidecar line may end with.
FileRefs == {"Release.zip", "source.zip", "OldRelease.zip"}

\* needle in hay, for a package name and the last field of a sidecar line.
NameIn(needle, hay) ==
    \/ needle = hay
    \/ needle = "Release.zip" /\ hay = "OldRelease.zip"

SumLines == [kind : {"blank", "comment"}, sum : {[val |-> "bad", upper |-> FALSE]},
             file : {Missing}]
            \cup [kind : {"bare"}, sum : Checksums, file : {Missing}]
            \cup [kind : {"named"}, sum : Checksums, file : FileRefs]

SumFiles == UNION {[1..n -> SumLines] : n \in 0..MaxLines}

\* Lines 621-636: the first line that is for the asset decides, and the loop
\* breaks there whether or not its checksum is well formed.
RECURSIVE ParseChecksums(_, _)
ParseChecksums(lines, asset_name) ==
    IF lines = <<>> THEN NoChecksum
    ELSE LET l == Head(lines) IN
         IF l.kind \in {"blank", "comment"} THEN ParseChecksums(Tail(lines), asset_name)
         ELSE IF l.kind = "bare" \/ NameIn(asset_name, l.file)
         THEN IF IsValidChecksum(l.sum) THEN l.sum ELSE NoChecksum
         ELSE ParseChecksums(Tail(lines), asset_name)

\* A verification that only looks whether a checksum is there.
VerifyChecksumPresent(d, expected) == expected.val \in Digests

\* _verify_checksum(file_path, expected_hash) for a file whose digest is d.
VerifyChecksum(d, expected) == [val |-> d, upper |-> FALSE] = Lower(expected)

\* ------------------------------------------------------ the staged package
\* What a completed download holds: no zip at all, a zip whose central
\* directory ZipFile cannot read, or a readable zip.
ZipBodies == {"notzip", "corrupt", "zip"}
NoBody == "none"

\* zipfile.is_zipfile(zip_path): the end-of-central-directory record is found.
IsZipFile(b) == b \in {"corrupt", "zip"}

\* ------------------------------------------------------- _flatten_nested_folder
Root == ExtractFolder

TopLevel(t) == {e \in t : Len(e.path) = Len(Root) + 1}

ChildrenOf(t, d) == {e \in t : Len(e.path) = Len(d) + 1 /\ IsPrefix(d, e.path)}

Below(t, d) == {e \in t : IsPrefix(d, e.path)}

\* The path with the wrapper's component taken out.
Lift(p) == SubSeq(p, 1, Len(Root)) \o SubSeq(p, Len(Root) + 2, Len(p))

LiftAll(es) == {[path |-> Lift(e.path), kind |-> e.kind] : e \in es}

LastOf(p) == p[Len(p)]

\* The outcomes of _flatten_nested_folder on tree t: the tree it leaves and
\* the value it returns. os.listdir's order is not specified, so when a child
\* carries the wrapper's own name (removing "dst" then removes the wrapper and
\* shutil.move raises) any set of the other children may have moved first.
FlattenOutcomes(t) ==
    IF Cardinality(TopLevel(t)) # 1 THEN {[tree |-> t, flattened |-> FALSE]}
    ELSE LET w == CHOOSE e \in TopLevel(t) : TRUE
             kids == ChildrenOf(t, w.path)
             clash == {k \in kids : LastOf(k.path) = LastOf(w.path)}
         IN IF w.kind # "dir" THEN {[tree |-> t, flattened |-> FALSE]}
            ELSE IF clash = {}
            THEN {[tree |-> LiftAll(Below(t, w.path) \ {w}), flattened |-> TRUE]}
            ELSE {[tree |-> LiftAll(UNION {Below(t, k.path) : k \in moved}),
                   flattened |-> FALSE] : moved \in SUBSET (kids \ clash)}

\* ------------------------------------------------------------ perform_update
StageOrder == <<"validate", "writable", "diskspace", "resolve", "download",
                "verify", "extract", "flatten", "script", "launch">>

Enter(stage) == stages' = Append(stages, stage)

\* "return False" out of the stage that is running.
ReturnFalse(stage) ==
    /\ pc' = "returned"
    /\ result' = "False"
    /\ failedAt' = stage

\* An exception leaves perform_update.
Propagate(stage) ==
    /\ pc' = "raised"
    /\ result' = "raised"
    /\ failedAt' = stage

\* Lines 533-541
PU_Validate ==
    /\ pc = "validate"
    /\ Enter("validate")
    /\ IF ValidateReleaseData(release)
       THEN pc' = "writable" /\ UNCHANGED <<result, failedAt>>
       ELSE ReturnFalse("validate")
    /\ UNCHANGED <<platform, mismatch, writeTest, dlRaised, dlInput, flRet, exVars, frozen, release, plan, zipFile, zipBody, tmpDir,
                   batWritten, batLaunched, netLog>>

\* How far _is_writable gets (lines 262-269): open() fails, write or close
\* fails, os.remove fails, or all three succeed.
WritableOutcomes == {"open-failed", "write-failed", "remove-failed", "ok"}

\* _is_writable (lines 262-269): the value it returns and what is left of
\* .update_write_test; the handler of line 268 removes nothing.
IsWritable(o) ==
    [writable  |-> (o = "ok"),
     test_file |-> IF o \in {"write-failed", "remove-failed"} THEN "left" ELSE "absent"]

\* Lines 543-548
PU_Writable ==
    /\ pc = "writable"
    /\ Enter("writable")
    /\ \E o \in WritableOutcomes :
          /\ writeTest' = IsWritable(o).test_file
          /\ IF IsWritable(o).writable
             THEN pc' = "diskspace" /\ UNCHANGED <<result, failedAt>>
             ELSE ReturnFalse("writable")
    /\ UNCHANGED <<platform, mismatch, dlRaised, dlInput, flRet, exVars, frozen, release, plan, zipFile, zipBody, tmpDir,
                   batWritten, batLaunched, netLog>>

\* Lines 550-560
PU_DiskSpace ==
    /\ pc = "diskspace"
    /\ Enter("diskspace")
    /\ \E has_space \in BOOLEAN :
          IF has_space
          THEN pc' = "resolve" /\ UNCHANGED <<result, failedAt>>
          ELSE ReturnFalse("diskspace")
    /\ UNCHANGED <<platform, mismatch, writeTest, dlRaised, dlInput, flRet, exVars, frozen, release, plan, zipFile, zipBody, tmpDir,
                   batWritten, batLaunched, netLog>>

\* Lines 562-608: choose the package asset and check its URL.
PU_Resolve ==
    /\ pc = "resolve"
    /\ Enter("resolve")
    /\ LET st == ResolveAssets(release) IN
       IF st.raised
       THEN Propagate("resolve") /\ UNCHANGED plan
       ELSE IF st.asset_url = None
       THEN ReturnFalse("resolve") /\ UNCHANGED plan
       ELSE IF ~IsValidUrl(st.asset_url)
       THEN /\ ReturnFalse("resolve")
            /\ plan' = [st EXCEPT !.fallback_url = None, !.fallback_name = None]
       ELSE /\ plan' = [st EXCEPT !.fallback_url = None, !.fallback_name = None]
            /\ pc' = "checksum"
            /\ UNCHANGED <<result, failedAt>>
    /\ release' = Consumed
    /\ UNCHANGED <<platform, mismatch, writeTest, dlRaised, dlInput, flRet, exVars, frozen, zipFile, zipBody, tmpDir,
                   batWritten, batLaunched, netLog>>

\* Lines 610-639: fetch and parse the checksum sidecar, when there is one.
PU_Checksum ==
    /\ pc = "checksum"
    /\ pc' = "download"
    /\ IF plan.checksum_url = None \/ ~IsValidUrl(plan.checksum_url)
       THEN /\ plan' = [plan EXCEPT !.checksum_url = None, !.asset_name = None]
            /\ UNCHANGED netLog
       ELSE /\ netLog' = Append(netLog, "checksum")
            /\ \/ plan' = [plan EXCEPT !.checksum_url = None, !.asset_name = None]
               \/ \E lines \in SumFiles :
                     plan' = [plan EXCEPT
                                !.expected_checksum = ParseChecksums(lines, plan.asset_name),
                                !.checksum_url = None, !.asset_name = None]
    /\ UNCHANGED <<platform, mismatch, writeTest, dlRaised, dlInput, flRet, exVars, frozen, release, result, stages, failedAt, zipFile,
                   zipBody, tmpDir, batWritten, batLaunched>>

\* MAX_DOWNLOAD_SIZE, in bytes (500 * 1024 * 1024)
MAX_DOWNLOAD_SIZE == 524288000

\* Most chunks response.iter_content yields in one download.
MaxChunks == 3

\* The Content-Length values a response declares; 0 stands for no header.
DeclaredSizes == {0, 4, 40, MAX_DOWNLOAD_SIZE, MAX_DOWNLOAD_SIZE + 1}

\* Lengths of the items iter_content yields: 0 is a keep-alive chunk, and
\* with an encoded body an item is not held to chunk_size.
ChunkSizes == {0, 4, 40, MAX_DOWNLOAD_SIZE}

Streams == UNION {[1..n -> ChunkSizes] : n \in 0..MaxChunks}

\* What one download meets: whether _request_with_retry got a response, the
\* length it declares, the chunks it yields, and whether the stream then
\* ends or the connection is lost.
DownloadInputs ==
    [request : {"ok"}, declared : DeclaredSizes, chunks : Streams,
     ending : {"eof", "connection-lost"}]
       \cup {[request |-> "failed", declared |-> 0, chunks |-> <<>>, ending |-> "eof"]}

NoInput == [request |-> "none", declared |-> 0, chunks |-> <<>>, ending |-> "eof"]

NoFailure == [raised |-> "none", opened |-> FALSE, total_size |-> 0, downloaded |-> 0]

\* The chunk loop with the size test of line 409 moved behind the loop.
RECURSIVE IterContentChecksLate(_, _, _)
IterContentChecksLate(total_size, downloaded, chunks) ==
    IF chunks = <<>>
    THEN [overrun |-> total_size > 0 /\ downloaded > total_size + total_size \div 10,
          downloaded |-> downloaded]
    ELSE IterContentChecksLate(total_size, downloaded + Head(chunks), Tail(chunks))

\* Lines 403-413: the chunk loop. downloaded > total_size * 1.1 is, for
\* whole numbers, downloaded > total_size + total_size \div 10.
RECURSIVE IterContent(_, _, _)
IterContent(total_size, downloaded, chunks) ==
    IF chunks = <<>> THEN [overrun |-> FALSE, downloaded |-> downloaded]
    ELSE IF Head(chunks) = 0 THEN IterContent(total_size, downloaded, Tail(chunks))
    ELSE LET d == downloaded + Head(chunks) IN
         IF total_size > 0 /\ d > total_size + total_size \div 10
         THEN [overrun |-> TRUE, downloaded |-> d]
         ELSE IterContent(total_size, d, Tail(chunks))

\* _download_with_progress with the size test after open(dest_path, 'wb').
DownloadOpensFirst(i) ==
    IF i.request = "failed"
    THEN [raised |-> "RequestException", opened |-> FALSE, total_size |-> 0, downloaded |-> 0]
    ELSE IF i.declared > MAX_DOWNLOAD_SIZE
    THEN [raised |-> "ValueError", opened |-> TRUE, total_size |-> i.declared, downloaded |-> 0]
    ELSE LET r == IterContent(i.declared, 0, i.chunks) IN
         [raised |-> IF r.overrun THEN "IOError-exceeded"
                     ELSE IF i.ending = "connection-lost" THEN "RequestException"
                     ELSE IF i.declared > 0 /\ r.downloaded # i.declared
                     THEN "IOError-incomplete"
                     ELSE "none",
          opened |-> TRUE, total_size |-> i.declared, downloaded |-> r.downloaded]

\* _download_with_progress (lines 393-419): the exception it raises, if any,
\* whether it has opened dest_path, and the two counters.
DownloadWithProgress(i) ==
    IF i.request = "failed"
    THEN [raised |-> "RequestException", opened |-> FALSE, total_size |-> 0, downloaded |-> 0]
    ELSE IF i.declared > MAX_DOWNLOAD_SIZE
    THEN [raised |-> "ValueError", opened |-> FALSE, total_size |-> i.declared, downloaded |-> 0]
    ELSE LET r == IterContent(i.declared, 0, i.chunks) IN
         [raised |-> IF r.overrun THEN "IOError-exceeded"
                     ELSE IF i.ending = "connection-lost" THEN "RequestException"
                     ELSE IF i.declared > 0 /\ r.downloaded # i.declared
                     THEN "IOError-incomplete"
                     ELSE "none",
          opened |-> TRUE, total_size |-> i.declared, downloaded |-> r.downloaded]

\* The handlers of lines 687-703 with no os.remove(zip_path) in any of them.
NoHandlerRemoves(d, zip) ==
    IF d.opened THEN "partial" ELSE zip

\* update_pkg.zip after the handlers of lines 687-703 have dealt with d:
\* only the IOError handler removes the file.
AfterDownloadHandlers(d, zip) ==
    IF d.raised \in {"IOError-exceeded", "IOError-incomplete"} THEN "absent"
    ELSE IF d.opened THEN "partial"
    ELSE zip

\* Lines 641-669 and the handlers at 687-703: _download_with_progress and
\* the is_zipfile test.
PU_DownloadFrom(i) ==
    /\ pc = "download"
    /\ Enter("download")
    /\ netLog' = Append(netLog, "package")
    /\ LET d == DownloadWithProgress(i) IN
          IF d.raised # "none"
          THEN /\ ReturnFalse("download")
               /\ dlRaised' = d
               /\ zipFile' = AfterDownloadHandlers(d, zipFile)
               /\ UNCHANGED zipBody
          ELSE /\ dlRaised' = IF dlInput = NoInput THEN NoFailure ELSE d
               /\ \E b \in ZipBodies :
                    IF ~IsZipFile(b)
                    THEN /\ ReturnFalse("download")
                         /\ zipFile' = "absent"
                         /\ UNCHANGED zipBody
                    ELSE /\ zipFile' = "complete"
                         /\ zipBody' = b
                         /\ pc' = IF plan.expected_checksum # NoChecksum THEN "verify" ELSE "extract"
                         /\ UNCHANGED <<result, failedAt>>
    /\ UNCHANGED <<platform, mismatch, writeTest, dlInput, flRet, exVars, frozen, release, plan,
                   tmpDir, batWritten, batLaunched>>

\* The download step against any response.
PU_Download == \E i \in DownloadInputs : PU_DownloadFrom(i)

\* The download step against the response dlInput.
DL_Download == PU_DownloadFrom(dlInput)

\* Lines 671-685; the digest of the downloaded bytes is first read here.
PU_Verify ==
    /\ pc = "verify"
    /\ Enter("verify")
    /\ \E digest \in Digests :
          /\ mismatch' = (digest # plan.expected_checksum.val)
          /\ IF VerifyChecksum(digest, plan.expected_checksum)
             THEN /\ pc' = "extract"
                  /\ UNCHANGED <<result, failedAt, zipFile>>
             ELSE /\ ReturnFalse("verify")
                  /\ zipFile' = "absent"
    /\ UNCHANGED <<platform, writeTest, dlRaised, dlInput, flRet, exVars, frozen, release, plan, zipBody, tmpDir,
                   batWritten, batLaunched, netLog>>

\* Lines 705-714: recreate update_tmp and open the archive. Nothing reads
\* asset_url or expected_checksum from here on.
PU_ExtractBegin ==
    /\ pc = "extract"
    /\ Enter("extract")
    /\ tmpDir' = "fresh"
    /\ tree' = {}
    /\ plan' = NoPlan
    /\ IF zipBody = "corrupt"
       THEN /\ ReturnFalse("extract")
            /\ UNCHANGED exStatus
       ELSE /\ pc' = "extracting"
            /\ exStatus' = "running"
            /\ UNCHANGED <<result, failedAt>>
    /\ UNCHANGED <<platform, mismatch, writeTest, dlRaised, dlInput, flRet, exPos, exCount, exLast, exRejected, frozen, release, zipFile,
                   zipBody, batWritten, batLaunched, netLog>>

\* A handler that logs the rejection and carries on with what was extracted.
PU_ExtractFailedSwallowed ==
    /\ pc = "extracting"
    /\ exStatus \in {"traversal", "oserror"}
    /\ exStatus' = "returned"
    /\ UNCHANGED <<platform, exPos, exCount, exLast, exRejected, tree, puVars>>

\* Lines 731-740: safe_extract raised.
PU_ExtractFailed ==
    /\ pc = "extracting"
    /\ exStatus \in {"traversal", "oserror"}
    /\ ReturnFalse("extract")
    /\ UNCHANGED <<platform, mismatch, writeTest, dlRaised, dlInput, flRet, exVars, frozen, release, stages, plan, zipFile, zipBody,
                   tmpDir, batWritten, batLaunched, netLog>>

\* Lines 716-724 and 736-740: flatten, then require at least one entry.
PU_Flatten ==
    /\ pc = "extracting"
    /\ exStatus = "returned"
    /\ Enter("flatten")
    /\ \E o \in FlattenOutcomes(tree) :
          /\ tree' = o.tree
          /\ flRet' = IF o.flattened THEN "True" ELSE "False"
          /\ IF TopLevel(o.tree) = {}
             THEN ReturnFalse("flatten")
             ELSE pc' = "script" /\ UNCHANGED <<result, failedAt>>
    /\ UNCHANGED <<platform, mismatch, writeTest, dlRaised, dlInput, exStatus, exPos, exCount, exLast, exRejected, frozen, release, plan,
                   zipFile, zipBody, tmpDir, batWritten, batLaunched, netLog>>

\* A run from source that forgets the extraction directory.
PU_DevReturnKeepsFolder ==
    /\ pc = "script"
    /\ ~frozen
    /\ zipFile' = "absent"
    /\ pc' = "returned"
    /\ result' = "True"
    /\ UNCHANGED <<platform, exVars, frozen, release, stages, failedAt, plan, zipBody,
                   tmpDir, batWritten, batLaunched, netLog, mismatch, writeTest, dlRaised, dlInput, flRet>>

\* Lines 744-756: a run from source removes what it staged and returns True.
PU_DevReturn ==
    /\ pc = "script"
    /\ ~frozen
    /\ zipFile' = "absent"
    /\ tmpDir' = "absent"
    /\ tree' = {}
    /\ pc' = "returned"
    /\ result' = "True"
    /\ UNCHANGED <<platform, mismatch, writeTest, dlRaised, dlInput, flRet, exStatus, exPos, exCount, exLast, exRejected, frozen, release, stages,
                   failedAt, plan, zipBody, batWritten, batLaunched, netLog>>

\* Lines 758-902: write the relauncher script to TEMP and check it.
PU_WriteScript ==
    /\ pc = "script"
    /\ frozen
    /\ Enter("script")
    /\ \E written \in BOOLEAN :
          IF written
          THEN /\ batWritten' = TRUE
               /\ pc' = "launch"
               /\ UNCHANGED <<result, failedAt>>
          ELSE /\ ReturnFalse("script")
               /\ UNCHANGED batWritten
    /\ UNCHANGED <<platform, mismatch, writeTest, dlRaised, dlInput, flRet, exVars, frozen, release, plan, zipFile, zipBody, tmpDir,
                   batLaunched, netLog>>

\* Lines 904-915: os.startfile(bat_path), then sys.exit(0).
PU_Launch ==
    /\ pc = "launch"
    /\ Enter("launch")
    /\ \E started \in BOOLEAN :
          IF started
          THEN /\ batLaunched' = TRUE
               /\ pc' = "exited"
               /\ result' = "exit"
               /\ UNCHANGED failedAt
          ELSE /\ ReturnFalse("launch")
               /\ UNCHANGED batLaunched
    /\ UNCHANGED <<platform, mismatch, writeTest, dlRaised, dlInput, flRet, exVars, frozen, release, plan, zipFile, zipBody, tmpDir,
                   batWritten, netLog>>

\* ============================================ Part 3: check_for_updates
\* Version numbers range over 0..MaxNum.
MaxNum == 1

\* max_retries of the metadata request.
MaxRetries == 3

\* Largest max_retries _request_with_retry is called with on its own.
MaxRetryArg == 3

Nums == 0..MaxNum

\* What may follow MAJOR.MINOR.PATCH in a tag: nothing, a named pre-release
\* ("1.0.0-alpha", "1.0.0-rc"), or a numeric pre-release identifier ("1.0.0-1").
Suffixes == {"", "-alpha", "-rc", "-1"}

Versions == [kind : {"version"}, rel : Nums \X Nums \X Nums, suf : Suffixes]

\* A tag that is no version at all, such as "latest".
NotAVersion == [kind |-> "text", rel |-> <<0, 0, 0>>, suf |-> "latest"]

\* A tag string: vs leading 'v' characters followed by the body.
TagStrings == [vs : {0, 1, 2}, body : Versions \cup {NotAVersion}]

\* CURRENT_VERSION: a version with or without the leading 'v'.
CurrentVersions == [vs : {0, 1}, body : Versions]

NoTag == [vs |-> 0, body |-> NotAVersion]

\* The value of data.get("tag_name", "").
TagFields ==
    {[kind |-> k, str |-> NoTag] : k \in {"missing", "empty", "non-string"}}
        \cup {[kind |-> "string", str |-> s] : s \in TagStrings}

\* The body of the metadata response.
Responses ==
    {[kind |-> k, tag |-> [kind |-> "missing", str |-> NoTag]] : k \in {"not-json", "non-dict"}}
        \cup {[kind |-> "dict", tag |-> t] : t \in TagFields}

\* No response has arrived.
NoResponse == [kind |-> "none", tag |-> [kind |-> "missing", str |-> NoTag]]

\* CURRENT_VERSION while check_for_updates is not running.
IdleVersion == [vs |-> 1, body |-> [kind |-> "version", rel |-> <<0, 0, 0>>, suf |-> ""]]

\* str.lstrip('v'): every leading 'v' goes.
LStripV(s) == [s EXCEPT !.vs = 0]

RECURSIVE StripTrailingZeros(_)
StripTrailingZeros(rel) ==
    IF rel # <<>> /\ rel[Len(rel)] = 0
    THEN StripTrailingZeros(SubSeq(rel, 1, Len(rel) - 1))
    ELSE rel

\* Python's tuple comparison a > b on tuples of integers.
RECURSIVE TupleGreater(_, _)
TupleGreater(a, b) ==
    IF a = <<>> THEN FALSE
    ELSE IF b = <<>> THEN TRUE
    ELSE IF Head(a) # Head(b) THEN Head(a) > Head(b)
    ELSE TupleGreater(Tail(a), Tail(b))

\* packaging.version.parse: the comparison key of a PEP 440 version, or
\* InvalidVersion. One leading 'v' is accepted. "-alpha" is the pre-release
\* a0, "-rc" is rc0, and "-N" is the implicit post-release postN; a version
\* without a pre-release segment sorts after all its pre-releases, one without
\* a post-release segment before all its post-releases.
ParseVersion(s) ==
    IF s.vs > 1 \/ s.body.kind # "version"
    THEN [ok |-> FALSE, release |-> <<>>, pre |-> 0, post |-> 0]
    ELSE [ok |-> TRUE,
          release |-> StripTrailingZeros(s.body.rel),
          pre |-> CASE s.body.suf = "-alpha" -> 1
                    [] s.body.suf = "-rc" -> 3
                    [] OTHER -> 9,
          post |-> IF s.body.suf = "-1" THEN 1 ELSE 0]

\* Version.__gt__: the keys compared as tuples (release, pre, post).
VersionGreater(x, y) ==
    \/ TupleGreater(x.release, y.release)
    \/ x.release = y.release /\ x.pre > y.pre
    \/ x.release = y.release /\ x.pre = y.pre /\ x.post > y.post

\* Lines 492-512 of check_for_updates, given the response body: the release
\* data, None, or an exception leaving the block.
CheckBody(current, resp) ==
    IF resp.kind = "not-json" THEN "raised"
    ELSE IF resp.kind = "non-dict" THEN "raised"
    ELSE IF resp.tag.kind \in {"missing", "empty"} THEN "None"
    ELSE IF resp.tag.kind = "non-string" THEN "raised"
    ELSE LET latest == ParseVersion(LStripV(resp.tag.str))
             curr == ParseVersion(LStripV(current))
         IN IF ~latest.ok \/ ~curr.ok THEN "None"
            ELSE IF VersionGreater(latest, curr) THEN "data"
            ELSE "None"

\* check_for_updates without its outer handler.
OuterExceptMissing(r) == r

\* Lines 513-515: the outer "except Exception" turns any exception into None.
OuterExcept(r) == IF r = "raised" THEN "None" ELSE r

\* What one requests.get + raise_for_status can do.
RequestOutcomes == {"ok", "connection-error", "http-403-rate-limit", "http-403", "http-500"}

\* One pass of the loop "for attempt in range(max_retries)" when the request
\* ends in o, with a sleep after the last attempt as well.
RetryStepAlwaysSleeps(attempt, max_retries, o) ==
    IF o = "ok" THEN [do |-> "return", sleep |-> FALSE]
    ELSE IF attempt < max_retries - 1 THEN [do |-> "retry", sleep |-> TRUE]
    ELSE [do |-> "raise", sleep |-> TRUE]

\* Lines 326-342: one pass of the loop "for attempt in range(max_retries)"
\* when the request ends in o: return the response, sleep and go round
\* again, or leave the loop and raise the last exception.
RetryStep(attempt, max_retries, o) ==
    IF o = "ok" THEN [do |-> "return", sleep |-> FALSE]
    ELSE IF attempt < max_retries - 1 THEN [do |-> "retry", sleep |-> TRUE]
    ELSE [do |-> "raise", sleep |-> FALSE]

\* One pass of the retry loop of _request_with_retry, called by
\* check_for_updates; after the last failed attempt the exception reaches the
\* handlers of lines 479-490, which return None.
CK_Request ==
    /\ ckPc = "request"
    /\ \E o \in RequestOutcomes :
          LET step == RetryStep(ckAttempt, ckMax, o) IN
          /\ ckLog' = Append(ckLog, o)
          /\ ckSleeps' = IF step.sleep THEN ckSleeps + 1 ELSE ckSleeps
          /\ CASE step.do = "return" ->
                    /\ ckPc' = "body"
                    /\ ckResp' \in Responses
                    /\ UNCHANGED <<ckAttempt, ckError, ckResult>>
               [] step.do = "retry" ->
                    /\ ckAttempt' = ckAttempt + 1
                    /\ UNCHANGED <<ckPc, ckResp, ckError, ckResult>>
               [] step.do = "raise" ->
                    /\ ckError' = o
                    /\ ckResult' = "None"
                    /\ ckPc' = "done"
                    /\ UNCHANGED <<ckAttempt, ckResp>>
    /\ UNCHANGED <<ckCurrent, ckMax, platform, exVars, puVars, appVars, auxVars>>

\* Lines 492-515: the response is decoded and the versions compared.
CK_Body ==
    /\ ckPc = "body"
    /\ ckResult' = OuterExcept(CheckBody(ckCurrent, ckResp))
    /\ ckPc' = "done"
    /\ UNCHANGED <<ckCurrent, ckResp, ckAttempt, ckSleeps, ckError, ckMax, ckLog,
                   platform, exVars, puVars, appVars, auxVars>>

\* _request_with_retry called on its own: one pass of its loop.
RR_Attempt ==
    /\ ckPc = "retry-loop"
    /\ \E o \in RequestOutcomes :
          LET step == RetryStep(ckAttempt, ckMax, o) IN
          /\ ckLog' = Append(ckLog, o)
          /\ ckSleeps' = IF step.sleep THEN ckSleeps + 1 ELSE ckSleeps
          /\ CASE step.do = "return" ->
                    /\ ckPc' = "retry-returned"
                    /\ UNCHANGED <<ckAttempt, ckError>>
               [] step.do = "retry" ->
                    /\ ckAttempt' = ckAttempt + 1
                    /\ UNCHANGED <<ckPc, ckError>>
               [] step.do = "raise" ->
                    /\ ckError' = o
                    /\ ckPc' = "retry-raised"
                    /\ UNCHANGED ckAttempt
    /\ UNCHANGED <<ckCurrent, ckResp, ckMax, ckResult, platform, exVars, puVars, appVars, auxVars>>

\* ====================================== Part 4: the application's threads
\* On-demand triggers the user may issue, and monitoring passes observed.
MaxWorkers == 3
MaxTicks == 2

Workers == 1..MaxWorkers

\* What a call of perform_update can end in: a return value, an exception, or
\* sys.exit(0) after the relauncher was launched.
PerformOutcomes == {"False", "True", "raised", "exit"}

\* Positions of a run_check thread between acquiring and releasing update_lock.
InRun == {"check", "prompt", "update", "finally"}

\* main, lines 663-664: the automatic check at startup.
Main_AutoCheck ==
    /\ alive /\ mainPc = "autocheck"
    /\ \E found \in BOOLEAN :
          mainPc' = IF found THEN "autoupdate" ELSE "startup-done"
    /\ UNCHANGED <<alive, updateLock, worker, ran, handoff, lateStep, ticks,
                   platform, exVars, puVars, ckVars, auxVars>>

\* main, lines 665-666: perform_update on the main thread. SystemExit and any
\* other exception leave main, and the interpreter exits.
Main_AutoUpdate ==
    /\ alive /\ mainPc = "autoupdate"
    /\ \E o \in PerformOutcomes :
          IF o \in {"exit", "raised"}
          THEN /\ mainPc' = "exited"
               /\ alive' = FALSE
               /\ handoff' = (o = "exit")
          ELSE /\ mainPc' = "startup-done"
               /\ UNCHANGED <<alive, handoff>>
    /\ UNCHANGED <<updateLock, worker, ran, lateStep, ticks,
                   platform, exVars, puVars, ckVars, auxVars>>

\* main, lines 669-686: the monitoring thread is started and the tray icon runs.
Main_StartTray ==
    /\ alive /\ mainPc = "startup-done"
    /\ mainPc' = "tray"
    /\ UNCHANGED <<alive, updateLock, worker, ran, handoff, lateStep, ticks,
                   platform, exVars, puVars, ckVars, auxVars>>

\* monitoring_loop: one pass of the monitoring thread.
Monitor_Tick ==
    /\ alive /\ mainPc = "tray"
    /\ ticks < MaxTicks
    /\ ticks' = ticks + 1
    /\ lateStep' = (lateStep \/ handoff)
    /\ UNCHANGED <<mainPc, alive, updateLock, worker, ran, handoff,
                   platform, exVars, puVars, ckVars, auxVars>>

\* manual_update_check, line 623: the menu item starts a run_check thread.
Tray_CheckNow(w) ==
    /\ alive /\ mainPc = "tray"
    /\ worker[w] = "unborn"
    /\ worker' = [worker EXCEPT ![w] = "start"]
    /\ lateStep' = (lateStep \/ handoff)
    /\ UNCHANGED <<mainPc, alive, updateLock, ran, handoff, ticks,
                   platform, exVars, puVars, ckVars, auxVars>>

\* quit_app: os._exit(0).
Tray_Quit ==
    /\ alive /\ mainPc = "tray"
    /\ alive' = FALSE
    /\ mainPc' = "exited"
    /\ UNCHANGED <<updateLock, worker, ran, handoff, lateStep, ticks,
                   platform, exVars, puVars, ckVars, auxVars>>

\* An acquire that does not look at the lock.
W_AcquireUnguarded(w) ==
    /\ alive /\ worker[w] = "start"
    /\ updateLock' = TRUE
    /\ worker' = [worker EXCEPT ![w] = "check"]
    /\ UNCHANGED <<mainPc, alive, ran, handoff, lateStep, ticks,
                   platform, exVars, puVars, ckVars, auxVars>>

\* run_check, lines 591-592: update_lock.acquire(blocking=False), or return.
W_Acquire(w) ==
    /\ alive /\ worker[w] = "start"
    /\ IF updateLock
       THEN /\ worker' = [worker EXCEPT ![w] = "dropped"]
            /\ UNCHANGED updateLock
       ELSE /\ updateLock' = TRUE
            /\ worker' = [worker EXCEPT ![w] = "check"]
    /\ UNCHANGED <<mainPc, alive, ran, handoff, lateStep, ticks,
                   platform, exVars, puVars, ckVars, auxVars>>

\* run_check, lines 604-616: check_for_updates, which returns data or None.
W_Check(w) ==
    /\ alive /\ worker[w] = "check"
    /\ ran' = ran \cup {w}
    /\ \E found \in BOOLEAN :
          worker' = [worker EXCEPT ![w] = IF found THEN "prompt" ELSE "finally"]
    /\ lateStep' = (lateStep \/ handoff)
    /\ UNCHANGED <<mainPc, alive, updateLock, handoff, ticks,
                   platform, exVars, puVars, ckVars, auxVars>>

\* run_check, lines 606-611: the yes/no message box.
W_Prompt(w) ==
    /\ alive /\ worker[w] = "prompt"
    /\ \E yes \in BOOLEAN :
          worker' = [worker EXCEPT ![w] = IF yes THEN "update" ELSE "finally"]
    /\ lateStep' = (lateStep \/ handoff)
    /\ UNCHANGED <<mainPc, alive, updateLock, ran, handoff, ticks,
                   platform, exVars, puVars, ckVars, auxVars>>

\* run_check, lines 612-618: perform_update on the worker thread. A return
\* value is dropped, an Exception is shown in a message box, and SystemExit
\* (no Exception) passes the handler; each way the finally clause is next.
W_Update(w) ==
    /\ alive /\ worker[w] = "update"
    /\ \E o \in PerformOutcomes :
          handoff' = (handoff \/ o = "exit")
    /\ worker' = [worker EXCEPT ![w] = "finally"]
    /\ lateStep' = (lateStep \/ handoff)
    /\ UNCHANGED <<mainPc, alive, updateLock, ran, ticks,
                   platform, exVars, puVars, ckVars, auxVars>>

\* A run_check that ends without releasing update_lock.
W_FinallyKeepsLock(w) ==
    /\ alive /\ worker[w] = "finally"
    /\ worker' = [worker EXCEPT ![w] = "ended"]
    /\ UNCHANGED <<mainPc, alive, updateLock, ran, handoff, lateStep, ticks,
                   platform, exVars, puVars, ckVars, auxVars>>

\* run_check, lines 619-620: update_lock.release(); the thread ends, and with
\* SystemExit pending only this thread ends.
W_Finally(w) ==
    /\ alive /\ worker[w] = "finally"
    /\ updateLock' = FALSE
    /\ worker' = [worker EXCEPT ![w] = "ended"]
    /\ UNCHANGED <<mainPc, alive, ran, handoff, lateStep, ticks,
                   platform, exVars, puVars, ckVars, auxVars>>

\* The relauncher script, once launched, kills the application (taskkill /F).
Relauncher_Kill ==
    /\ alive /\ handoff
    /\ alive' = FALSE
    /\ mainPc' = "exited"
    /\ UNCHANGED <<updateLock, worker, ran, handoff, lateStep, ticks,
                   platform, exVars, puVars, ckVars, auxVars>>

\* ================================================================ Part 5
\* The relauncher script perform_update writes and launches.

\* An environment variable: unset, or set to a directory.
Unset == [set |-> FALSE, dir |-> <<>>]
TempDir == <<"users", "u", "temp">>
EnvValues == {Unset, [set |-> TRUE, dir |-> TempDir], [set |-> TRUE, dir |-> BaseDir]}

Envs == [TEMP : EnvValues, TMP : EnvValues]

NoPath == <<>>

\* os.environ.get("TEMP", os.environ.get("TMP", BASE_DIR))
TempDirOf(e) ==
    IF e.TEMP.set THEN e.TEMP.dir
    ELSE IF e.TMP.set THEN e.TMP.dir
    ELSE BaseDir

\* bat_path = os.path.join(temp_dir, "monitor_swapper_updater.bat")
BatPath(e) == TempDirOf(e) \o <<"monitor_swapper_updater.bat">>

\* The exit codes of robocopy: a bit mask, 8 and 16 being the failure bits.
RoboCodes == {0, 1, 3, 7, 8, 9, 16}

\* "if %ROBO_EXIT% gtr 8": the script with the failure threshold off by one.
RoboFailedAbove(code) == code > 8

\* if %ROBO_EXIT% geq 8
RoboFailed(code) == code >= 8

\* Lines 890-893: perform_update writes the script.
RL_Write ==
    /\ rlPc = "unwritten"
    /\ batPath' = BatPath(env)
    /\ rlPc' = "written"
    /\ UNCHANGED <<clVars, csVars, moreVars, env, roboExit, exePresent, stagedZip, stagedTmp, relaunched, rlExit>>

\* Lines 904-915 and the script's lines 801-806: the script is started,
\* kills the application and waits.
RL_Kill ==
    /\ rlPc = "written"
    /\ rlPc' = "robocopy"
    /\ UNCHANGED <<clVars, csVars, moreVars, env, batPath, roboExit, exePresent, stagedZip, stagedTmp, relaunched,
                   rlExit>>

\* The script's lines 811-814: robocopy mirrors update_tmp into the install
\* directory; afterwards the executable is there or not.
RL_Robocopy ==
    /\ rlPc = "robocopy"
    /\ roboExit' \in RoboCodes
    /\ exePresent' \in BOOLEAN
    /\ rlPc' = "check-exit"
    /\ UNCHANGED <<clVars, csVars, moreVars, env, batPath, stagedZip, stagedTmp, relaunched, rlExit>>

\* The script's lines 817-833
RL_CheckExit ==
    /\ rlPc = "check-exit"
    /\ IF RoboFailed(roboExit)
       THEN rlPc' = "exited" /\ rlExit' = 1
       ELSE rlPc' = "check-exe" /\ UNCHANGED rlExit
    /\ UNCHANGED <<clVars, csVars, moreVars, env, batPath, roboExit, exePresent, stagedZip, stagedTmp, relaunched>>

\* The script's lines 836-848
RL_CheckExe ==
    /\ rlPc = "check-exe"
    /\ IF ~exePresent
       THEN rlPc' = "exited" /\ rlExit' = 1
       ELSE rlPc' = "cleanup" /\ UNCHANGED rlExit
    /\ UNCHANGED <<clVars, csVars, moreVars, env, batPath, roboExit, exePresent, stagedZip, stagedTmp, relaunched>>

\* The script's lines 853-854: rmdir and del, their failures discarded.
RL_Cleanup ==
    /\ rlPc = "cleanup"
    /\ stagedTmp' \in {stagedTmp, "absent"}
    /\ stagedZip' \in {stagedZip, "absent"}
    /\ rlPc' = "restart"
    /\ UNCHANGED <<clVars, csVars, moreVars, env, batPath, roboExit, exePresent, relaunched, rlExit>>

\* The script's lines 868-880: the application is started and the script
\* deletes itself.
RL_Restart ==
    /\ rlPc = "restart"
    /\ relaunched' = TRUE
    /\ rlPc' = "exited"
    /\ rlExit' = 0
    /\ UNCHANGED <<clVars, csVars, moreVars, env, batPath, roboExit, exePresent, stagedZip, stagedTmp>>

\* ================================================================ Part 6
\* cleanup_update_artifacts(): what the application does at startup with
\* the artifacts of an earlier update.

\* What is found at the path of an artifact: nothing, a file, a directory
\* (either one possibly undeletable), or a symbolic link to a directory.
ArtifactKinds == {"absent", "file", "locked-file", "dir", "locked-dir", "link"}

\* os.path.exists(path)
PathExists(a) == a # "absent"

\* os.remove(zip_path): removes a file or a link; raises for a directory
\* and for a file that cannot be deleted.
OsRemove(a) ==
    IF a \in {"file", "link"} THEN [raised |-> FALSE, left |-> "absent"]
    ELSE [raised |-> TRUE, left |-> a]

\* shutil.rmtree(extract_folder, onerror=_remove_readonly): removes a
\* directory; raises for a file and for a directory that cannot be deleted,
\* as the handler's second attempt fails too. For a symbolic link rmtree
\* reports the failed os.path.islink test to the handler, whose second call
\* of os.path.islink raises nothing, and returns with the link in place.
RmTree(a) ==
    IF a = "dir" THEN [raised |-> FALSE, left |-> "absent"]
    ELSE IF a = "link" THEN [raised |-> FALSE, left |-> a]
    ELSE [raised |-> TRUE, left |-> a]

\* Lines 60-67
CL_Zip ==
    /\ clPc = "zip"
    /\ IF PathExists(stagedZip)
       THEN /\ stagedZip' = OsRemove(stagedZip).left
            /\ zip_cleaned' = ~OsRemove(stagedZip).raised
       ELSE UNCHANGED <<stagedZip, zip_cleaned>>
    /\ clPc' = "folder"
    /\ UNCHANGED <<csVars, moreVars, env, batPath, rlPc, roboExit, exePresent, stagedTmp, relaunched, rlExit,
                   folder_cleaned, clRet>>

\* Lines 69-78
CL_Folder ==
    /\ clPc = "folder"
    /\ IF PathExists(stagedTmp)
       THEN /\ stagedTmp' = RmTree(stagedTmp).left
            /\ folder_cleaned' = ~RmTree(stagedTmp).raised
       ELSE UNCHANGED <<stagedTmp, folder_cleaned>>
    /\ clRet' = IF zip_cleaned \/ folder_cleaned' THEN "True" ELSE "False"
    /\ clPc' = "returned"
    /\ UNCHANGED <<csVars, moreVars, env, batPath, rlPc, roboExit, exePresent, stagedZip, relaunched, rlExit,
                   zip_cleaned>>

\* ================================================================ Part 7
\* _is_valid_checksum() on the text of a candidate checksum, and the use
\* perform_update makes of its answer.

\* A text is a sequence of runs of one character; the characters stand for
\* a lower-case hex letter, an upper-case hex letter, a letter that is no
\* hex digit, a decimal digit, the letter x, an underscore, a sign and a
\* blank.
MaxRuns == 3
Sha256HexLen == 64
Chars == {"a", "F", "g", "0", "x", "_", "+", " "}
RunLengths == {1, 62, 63, 64}
Runs == [ch : Chars, n : RunLengths]
Texts == UNION {[1..k -> Runs] : k \in 0..MaxRuns}
\* An argument is a str with its text, or a value of another type.
NonStringArg == [isStr |-> FALSE, text |-> <<>>]
Arguments == [isStr : {TRUE}, text : Texts] \cup {NonStringArg}
NoExpected == [set |-> FALSE, text |-> <<>>]

RECURSIVE Expand(_)
Expand(runs) ==
    IF runs = <<>> THEN <<>>
    ELSE [i \in 1..Head(runs).n |-> Head(runs).ch] \o Expand(Tail(runs))

\* str.strip()
StripText(s) ==
    LET solid == {i \in 1..Len(s) : s[i] # " "}
    IN IF solid = {} THEN <<>>
       ELSE SubSeq(s, CHOOSE i \in solid : \A j \in solid : i <= j,
                      CHOOSE i \in solid : \A j \in solid : i >= j)

\* str.lower()
LowerText(s) == [i \in 1..Len(s) |-> IF s[i] = "F" THEN "f" ELSE s[i]]

HexDigits == {"a", "f", "F", "0"}

\* The digits of an integer literal from position i: a digit, then digits,
\* each of them possibly preceded by one underscore.
RECURSIVE DigitsFrom(_, _)
DigitsFrom(s, i) ==
    /\ i <= Len(s)
    /\ s[i] \in HexDigits
    /\ \/ i = Len(s)
       \/ IF s[i + 1] = "_" THEN DigitsFrom(s, i + 2) ELSE DigitsFrom(s, i + 1)

\* int(checksum, 16) raises no ValueError: an optional sign, an optional
\* prefix 0x, one optional underscore after the prefix, then the digits.
IntBase16Parses(s) ==
    LET afterSign == IF Len(s) >= 1 /\ s[1] = "+" THEN 2 ELSE 1
        prefixed == /\ Len(s) >= afterSign + 1
                    /\ s[afterSign] = "0"
                    /\ s[afterSign + 1] = "x"
        afterPrefix == IF prefixed THEN afterSign + 2 ELSE afterSign
        start == IF prefixed /\ Len(s) >= afterPrefix /\ s[afterPrefix] = "_"
                 THEN afterPrefix + 1 ELSE afterPrefix
    IN DigitsFrom(s, start)

\* _is_valid_checksum(checksum)
is_valid_checksum(arg) ==
    IF ~arg.isStr \/ arg.text = <<>> THEN FALSE
    ELSE LET checksum == LowerText(StripText(Expand(arg.text)))
         IN IF Len(checksum) # Sha256HexLen THEN FALSE
            ELSE IntBase16Parses(checksum)

\* line.split() can yield the text as parts[0]: it is not empty and holds
\* no blank.
IsToken(arg) ==
    /\ arg.isStr
    /\ arg.text # <<>>
    /\ \A i \in 1..Len(arg.text) : arg.text[i].ch # " "

\* The call of _is_valid_checksum.
CS_IsValid ==
    /\ csPc = "call"
    /\ csValid' = IF is_valid_checksum(candidate) THEN "True" ELSE "False"
    /\ csPc' = "validated"
    /\ UNCHANGED <<candidate, csExpected>>
    /\ UNCHANGED <<clVars, moreVars, env, batPath, rlPc, roboExit, exePresent, stagedZip, stagedTmp,
                   relaunched, rlExit>>

\* Lines 629-636: the candidate becomes the expected checksum when valid.
CS_Use ==
    /\ csPc = "validated"
    /\ IsToken(candidate)
    /\ csExpected' = IF csValid = "True" THEN [set |-> TRUE, text |-> candidate.text]
                                        ELSE NoExpected
    /\ csPc' = "parsed"
    /\ UNCHANGED <<candidate, csValid>>
    /\ UNCHANGED <<clVars, moreVars, env, batPath, rlPc, roboExit, exePresent, stagedZip, stagedTmp,
                   relaunched, rlExit>>

\* Lines 672-674: verification only with an expected checksum.
CS_Verify ==
    /\ csPc = "parsed"
    /\ csPc' = IF csExpected.set THEN "verifying" ELSE "skipped"
    /\ UNCHANGED <<candidate, csValid, csExpected>>
    /\ UNCHANGED <<clVars, moreVars, env, batPath, rlPc, roboExit, exePresent, stagedZip, stagedTmp,
                   relaunched, rlExit>>

\* ================================================================ Part 8
\* _calculate_sha256() and _verify_checksum() on the bytes of a file.

MaxFileLen == 3
ReadSize == 2
MaxCalls == 2
Bytes == {0, 1}
FileBodies == UNION {[1..k -> Bytes] : k \in 0..MaxFileLen}
DigestLen == MaxFileLen + 1

\* hashlib's digest of the bytes fed to it, as hexdigest() gives it: one
\* hex character per byte and the rest filled up, so that different bodies
\* have different digests.
HexDigest(fed) ==
    [i \in 1..DigestLen |-> IF i > Len(fed) THEN "0" ELSE IF fed[i] = 0 THEN "a" ELSE "f"]

\* Lines 355-357: the file is read in blocks of ReadSize bytes until a
\* read returns b'', each block being passed to sha256.update().
RECURSIVE ReadBlocks(_, _, _)
ReadBlocks(body, pos, fed) ==
    LET last == IF pos + ReadSize - 1 <= Len(body) THEN pos + ReadSize - 1 ELSE Len(body)
        chunk == SubSeq(body, pos, last)
    IN IF chunk = <<>> THEN fed
       ELSE ReadBlocks(body, last + 1, fed \o chunk)

\* _calculate_sha256(file_path)
calculate_sha256(body) == LowerText(HexDigest(ReadBlocks(body, 1, <<>>)))

\* _verify_checksum(file_path, expected_hash) without lower()
VerifyExactCase(body, expected_hash) == calculate_sha256(body) = expected_hash

\* _verify_checksum(file_path, expected_hash)
verify_checksum(body, expected_hash) == calculate_sha256(body) = LowerText(expected_hash)

\* The hash texts passed as expected_hash.
HashChars == {"a", "f", "F", "0"}
ExpectedHashes == [1..DigestLen -> HashChars] \cup [1..(DigestLen - 1) -> HashChars]

\* A call of _calculate_sha256 on the file.
SHA_Calculate ==
    /\ Len(shDigests) < MaxCalls
    /\ shDigests' = Append(shDigests, calculate_sha256(shFile))
    /\ UNCHANGED <<shFile, shExpected, shRet>>

\* A call of _verify_checksum on the file.
SHA_Verify ==
    /\ shRet = "none"
    /\ shRet' = IF verify_checksum(shFile, shExpected) THEN "True" ELSE "False"
    /\ UNCHANGED <<shFile, shExpected, shDigests>>

\* ================================================================ Part 9
\* _is_valid_url() on what urlparse makes of its argument.

MaxTokens == 5

\* The network location is spelled from these pieces, ":443" being a port.
NetlocTokens == {"evil", "github", "usercontent", ".", "com", ":443"}
Netlocs == UNION {[1..k -> NetlocTokens] : k \in 0..MaxTokens}

\* The argument: None, a value that is no str, the empty str, or a str with
\* the scheme, netloc and path urlparse finds in it.
NoUrl == [kind |-> "None", scheme |-> "", netloc |-> <<>>, path |-> ""]
UrlArguments ==
    [kind : {"str"}, scheme : {"https", "http"}, netloc : Netlocs, path : {"", "/", "/o/r"}]
        \cup [kind : {"None", "non-string", "empty"}, scheme : {""}, netloc : {<<>>},
              path : {""}]

GithubCom == <<"github", ".", "com">>
GithubusercontentCom == <<"github", "usercontent", ".", "com">>

\* str.endswith(suffix)
EndsWith(text, suffix) ==
    /\ Len(text) >= Len(suffix)
    /\ SubSeq(text, Len(text) - Len(suffix) + 1, Len(text)) = suffix

\* _is_valid_url(url)
is_valid_url(url) ==
    IF url.kind # "str" THEN FALSE
    ELSE IF url.scheme # "https" THEN FALSE
    ELSE IF ~EndsWith(url.netloc, GithubCom) /\ ~EndsWith(url.netloc, GithubusercontentCom)
         THEN FALSE
    ELSE IF url.path = "" \/ url.path = "/" THEN FALSE
    ELSE TRUE

URL_IsValid ==
    /\ urlRet = "none"
    /\ urlRet' = IF is_valid_url(urlArg) THEN "True" ELSE "False"
    /\ UNCHANGED urlArg

\* =============================================================== Part 10
\* SingleInstanceMutex (monitor_swapper.py) over the named mutexes of the
\* Windows kernel.

MaxOps == 4
MutexObjects == {"m1", "m2", "m3"}
MutexNames == {"A", "B"}
MutexThreads == {1, 2}

\* kernel32.CreateMutexW(None, True, name) followed by GetLastError(): a
\* mutex of that name that has an open handle is opened and the error is
\* ERROR_ALREADY_EXISTS; otherwise the mutex is created, owned by the
\* calling thread, and the error is 0.
CreateMutexW(name, thread) ==
    [already_exists |-> mxOpen[name] > 0,
     open |-> [mxOpen EXCEPT ![name] = @ + 1],
     owner |-> IF mxOpen[name] > 0 THEN mxOwner ELSE [mxOwner EXCEPT ![name] = thread]]

\* acquire() that takes ERROR_ALREADY_EXISTS for success
AcquireIgnoringError(already_exists) == "True"

\* Lines 88-97: the value acquire() returns; CreateMutexW has returned a
\* handle.
AcquireResult(already_exists) == IF already_exists THEN "False" ELSE "True"

\* acquire(): mutex_handle is assigned before the error is looked at, and
\* the handle it held before is not closed.
MX_Acquire(o) ==
    /\ Len(mxLog) < MaxOps
    /\ LET created == CreateMutexW(mxName[o], mxThread[o]) IN
       /\ mxOpen' = created.open
       /\ mxOwner' = created.owner
       /\ mxHandle' = [mxHandle EXCEPT ![o] = TRUE]
       /\ mxLog' = Append(mxLog, [op |-> "acquire", obj |-> o,
                                  ret |-> AcquireResult(created.already_exists)])
    /\ UNCHANGED <<mxName, mxThread>>

\* release(): with a handle, ReleaseMutex (which ends the ownership of the
\* calling thread), CloseHandle and mutex_handle = None; else nothing.
MX_Release(o) ==
    /\ Len(mxLog) < MaxOps
    /\ IF mxHandle[o]
       THEN /\ mxOwner' = IF mxOwner[mxName[o]] = mxThread[o]
                          \/ mxOpen[mxName[o]] = 1
                          THEN [mxOwner EXCEPT ![mxName[o]] = 0] ELSE mxOwner
            /\ mxOpen' = [mxOpen EXCEPT ![mxName[o]] = @ - 1]
            /\ mxHandle' = [mxHandle EXCEPT ![o] = FALSE]
       ELSE UNCHANGED <<mxOwner, mxOpen, mxHandle>>
    /\ mxLog' = Append(mxLog, [op |-> "release", obj |-> o, ret |-> "None"])
    /\ UNCHANGED <<mxName, mxThread>>

\* =============================================================== Part 11
\* validate_config() and validate_mode_settings() (monitor_swapper.py): the
\* brightness and contrast of game_mode and desktop_mode. The other keys of
\* the result do not depend on them and are left out.

\* A value of the config: numbers are kept in tenths, so that 999 is the
\* float 99.9 and 1010 the int 101; "numeral" is a str int() can read,
\* "word" one it cannot.
IntTenths == {-10, 0, 1000, 1010}
FloatTenths == {-15, -5, 999, 1005}
SettingValues ==
    [t : {"int"}, v : IntTenths] \cup [t : {"float"}, v : FloatTenths]
        \cup {[t |-> "bool", v |-> 10], [t |-> "numeral", v |-> 750]}
        \cup [t : {"word", "None", "inf", "nan", "missing"}, v : {0}]

\* A mode as the config holds it: a dict, a value that is no dict, or no key.
NoMode == [kind |-> "missing", brightness |-> [t |-> "missing", v |-> 0],
           contrast |-> [t |-> "missing", v |-> 0]]
Modes ==
    [kind : {"dict"}, brightness : SettingValues, contrast : SettingValues]
        \cup {NoMode, [NoMode EXCEPT !.kind = "non-dict"]}

Configs ==
    [isDict : {TRUE}, game_mode : Modes, desktop_mode : {NoMode}]
        \cup [isDict : {TRUE}, game_mode : {NoMode}, desktop_mode : Modes]
        \cup {[isDict |-> FALSE, game_mode |-> NoMode, desktop_mode |-> NoMode]}

NoOutcome == [raised |-> "not called", game_mode |-> <<>>, desktop_mode |-> <<>>]

\* DEFAULT_CONFIG["game_mode"] and DEFAULT_CONFIG["desktop_mode"]
DefaultMode(mode_name) ==
    IF mode_name = "game_mode"
    THEN [kind |-> "dict", brightness |-> [t |-> "int", v |-> 800],
          contrast |-> [t |-> "int", v |-> 800]]
    ELSE [kind |-> "dict", brightness |-> [t |-> "int", v |-> 500],
          contrast |-> [t |-> "int", v |-> 500]]

\* int(x) of a number in tenths: the fraction is cut off towards zero.
IntOf(v) == IF v >= 0 THEN v \div 10 ELSE -((-v) \div 10)

\* Lines 176-190 (and 193-207 for contrast): mode.get(key, 50), the test
\* for infinity and NaN, int(), the clamping and the except clause.
ValidatedSetting(value) ==
    IF value.t = "missing" THEN 50
    ELSE IF value.t \in {"inf", "nan", "None", "word"} THEN 50
    ELSE IF IntOf(value.v) < 0 THEN 0
    ELSE IF IntOf(value.v) > 100 THEN 100
    ELSE IntOf(value.v)

\* validate_mode_settings(mode, mode_name, warnings)
validate_mode_settings(mode) ==
    [brightness |-> ValidatedSetting(mode.brightness),
     contrast |-> ValidatedSetting(mode.contrast)]

\* Lines 145-163: config.get(key, {}), the default for a value that is no
\* dict, and validate_mode_settings.
ValidatedMode(mode, mode_name) ==
    IF mode.kind = "non-dict" THEN validate_mode_settings(DefaultMode(mode_name))
    ELSE validate_mode_settings(mode)

\* validate_config(config): config.get raises AttributeError when config is
\* no dict.
CFG_Validate ==
    /\ cfgOut = NoOutcome
    /\ cfgOut' = IF ~cfgIn.isDict
                 THEN [raised |-> "AttributeError", game_mode |-> <<>>, desktop_mode |-> <<>>]
                 ELSE [raised |-> "no",
                       game_mode |-> ValidatedMode(cfgIn.game_mode, "game_mode"),
                       desktop_mode |-> ValidatedMode(cfgIn.desktop_mode, "desktop_mode")]
    /\ UNCHANGED cfgIn

\* =============================================================== Part 12
\* Lines 619-636 on a sidecar that was fetched.

SC_Parse ==
    /\ scPc = "fetched"
    /\ scExpected' = ParseChecksums(scLines, scAsset)
    /\ scPc' = "parsed"
    /\ UNCHANGED <<scLines, scAsset>>

\* ========================================================= specifications
vars == <<platform, exVars, puVars, ckVars, appVars, auxVars>>

ShIdle ==
    /\ shFile = <<>>
    /\ shExpected = <<>>
    /\ shDigests = <<>>
    /\ shRet = "none"

UrlIdle ==
    /\ urlArg = NoUrl
    /\ urlRet = "none"

MxIdle ==
    /\ mxName = [o \in MutexObjects |-> "A"]
    /\ mxThread = [o \in MutexObjects |-> 1]
    /\ mxHandle = [o \in MutexObjects |-> FALSE]
    /\ mxOpen = [n \in MutexNames |-> 0]
    /\ mxOwner = [n \in MutexNames |-> 0]
    /\ mxLog = <<>>

CfgIdle ==
    /\ cfgIn = [isDict |-> FALSE, game_mode |-> NoMode, desktop_mode |-> NoMode]
    /\ cfgOut = NoOutcome

ScIdle ==
    /\ scLines = <<>>
    /\ scAsset = None
    /\ scExpected = NoChecksum
    /\ scPc = "idle"

MoreIdle ==
    /\ ShIdle
    /\ UrlIdle
    /\ MxIdle
    /\ CfgIdle
    /\ ScIdle

CsIdle ==
    /\ candidate = NonStringArg
    /\ csPc = "idle"
    /\ csValid = "none"
    /\ csExpected = NoExpected

ClIdle ==
    /\ clPc = "idle"
    /\ zip_cleaned = FALSE
    /\ folder_cleaned = FALSE
    /\ clRet = "none"

RlIdle ==
    /\ env = [TEMP |-> Unset, TMP |-> Unset]
    /\ batPath = NoPath
    /\ rlPc = "idle"
    /\ roboExit = -1
    /\ exePresent = TRUE
    /\ stagedZip = "absent"
    /\ stagedTmp = "absent"
    /\ relaunched = FALSE
    /\ rlExit = -1

AuxIdle ==
    /\ RlIdle
    /\ ClIdle
    /\ CsIdle
    /\ MoreIdle

ExIdle ==
    /\ exStatus = "idle"
    /\ exPos = 0
    /\ exCount = 0
    /\ exLast = [m |-> NoMember, verdict |-> "none"]
    /\ exRejected = 0
    /\ tree = {}

PuIdle ==
    /\ frozen = FALSE
    /\ release = Consumed
    /\ pc = "idle"
    /\ result = "none"
    /\ stages = <<>>
    /\ failedAt = "none"
    /\ plan = NoPlan
    /\ zipFile = "absent"
    /\ zipBody = NoBody
    /\ tmpDir = "absent"
    /\ batWritten = FALSE
    /\ batLaunched = FALSE
    /\ netLog = <<>>
    /\ mismatch = FALSE
    /\ writeTest = "absent"
    /\ dlRaised = NoFailure
    /\ dlInput = NoInput
    /\ flRet = "none"

CkIdle ==
    /\ ckPc = "idle"
    /\ ckCurrent = IdleVersion
    /\ ckResp = NoResponse
    /\ ckAttempt = 0
    /\ ckSleeps = 0
    /\ ckError = "none"
    /\ ckMax = MaxRetries
    /\ ckLog = <<>>
    /\ ckResult = "none"

AppIdle ==
    /\ mainPc = "idle"
    /\ alive = TRUE
    /\ updateLock = FALSE
    /\ worker = [w \in Workers |-> "unborn"]
    /\ ran = {}
    /\ handoff = FALSE
    /\ lateStep = FALSE
    /\ ticks = 0

\* safe_extract called on its own, on an empty target directory.
ExtractInit ==
    /\ platform \in Platforms
    /\ AuxIdle
    /\ exStatus = "running"
    /\ exPos = 0
    /\ exCount = 0
    /\ exLast = [m |-> NoMember, verdict |-> "none"]
    /\ exRejected = 0
    /\ tree = {}
    /\ PuIdle /\ CkIdle /\ AppIdle

ExtractStep == \E m \in Members : ExtractMember(m)

NextExtract ==
    \/ ExtractStep /\ UNCHANGED <<ckVars, appVars, auxVars>>
    \/ ExtractEnd /\ UNCHANGED <<ckVars, appVars, auxVars>>

SpecExtract == ExtractInit /\ [][NextExtract]_vars

\* perform_update(release_data), entered with any release data and with the
\* install directory clean or holding what an earlier run left behind.
UpdateInit ==
    /\ platform \in Platforms
    /\ AuxIdle
    /\ ExIdle
    /\ frozen \in BOOLEAN
    /\ release \in Releases
    /\ pc = "validate"
    /\ result = "none"
    /\ stages = <<>>
    /\ failedAt = "none"
    /\ plan = NoPlan
    /\ zipFile \in {"absent", "stale"}
    /\ zipBody = NoBody
    /\ tmpDir \in {"absent", "stale"}
    /\ batWritten = FALSE
    /\ batLaunched = FALSE
    /\ netLog = <<>>
    /\ mismatch = FALSE
    /\ writeTest = "absent"
    /\ dlRaised = NoFailure
    /\ dlInput = NoInput
    /\ flRet = "none"
    /\ CkIdle /\ AppIdle

NextUpdate ==
    \/ PU_Validate /\ UNCHANGED <<ckVars, appVars, auxVars>>
    \/ PU_Writable /\ UNCHANGED <<ckVars, appVars, auxVars>>
    \/ PU_DiskSpace /\ UNCHANGED <<ckVars, appVars, auxVars>>
    \/ PU_Resolve /\ UNCHANGED <<ckVars, appVars, auxVars>>
    \/ PU_Checksum /\ UNCHANGED <<ckVars, appVars, auxVars>>
    \/ PU_Download /\ UNCHANGED <<ckVars, appVars, auxVars>>
    \/ PU_Verify /\ UNCHANGED <<ckVars, appVars, auxVars>>
    \/ PU_ExtractBegin /\ UNCHANGED <<ckVars, appVars, auxVars>>
    \/ pc = "extracting" /\ ExtractStep /\ UNCHANGED <<ckVars, appVars, auxVars>>
    \/ pc = "extracting" /\ ExtractEnd /\ UNCHANGED <<ckVars, appVars, auxVars>>
    \/ PU_ExtractFailed /\ UNCHANGED <<ckVars, appVars, auxVars>>
    \/ PU_Flatten /\ UNCHANGED <<ckVars, appVars, auxVars>>
    \/ PU_DevReturn /\ UNCHANGED <<ckVars, appVars, auxVars>>
    \/ PU_WriteScript /\ UNCHANGED <<ckVars, appVars, auxVars>>
    \/ PU_Launch /\ UNCHANGED <<ckVars, appVars, auxVars>>

SpecUpdate == UpdateInit /\ [][NextUpdate]_vars

\* check_for_updates(), for any current version and any answer of the server.
CheckInit ==
    /\ platform \in Platforms
    /\ AuxIdle
    /\ ExIdle /\ PuIdle /\ AppIdle
    /\ ckPc = "request"
    /\ ckCurrent \in CurrentVersions
    /\ ckResp = NoResponse
    /\ ckAttempt = 0
    /\ ckSleeps = 0
    /\ ckError = "none"
    /\ ckMax = MaxRetries
    /\ ckLog = <<>>
    /\ ckResult = "none"

NextCheck == CK_Request \/ CK_Body

SpecCheck == CheckInit /\ [][NextCheck]_vars

\* perform_update at its download step, for every response to the request.
DownloadInit ==
    /\ platform \in Platforms
    /\ AuxIdle
    /\ ExIdle /\ CkIdle /\ AppIdle
    /\ frozen \in BOOLEAN
    /\ release = Consumed
    /\ pc = "download"
    /\ result = "none"
    /\ stages = <<"validate", "writable", "diskspace", "resolve">>
    /\ failedAt = "none"
    /\ \E c \in {NoChecksum, [val |-> "h1", upper |-> FALSE]} :
          plan = [NoPlan EXCEPT !.asset_url = GoodUrl, !.expected_checksum = c]
    /\ zipFile \in {"absent", "stale"}
    /\ zipBody = NoBody
    /\ tmpDir \in {"absent", "stale"}
    /\ batWritten = FALSE
    /\ batLaunched = FALSE
    /\ netLog = IF plan.expected_checksum = NoChecksum THEN <<>> ELSE <<"checksum">>
    /\ mismatch = FALSE
    /\ writeTest = "absent"
    /\ dlRaised = NoFailure
    /\ dlInput \in DownloadInputs
    /\ flRet = "none"

NextDownload == DL_Download /\ UNCHANGED <<ckVars, appVars, auxVars>>

SpecDownload == DownloadInit /\ [][NextDownload]_vars

\* _request_with_retry(url, max_retries) for any max_retries from 1 on.
RetryInit ==
    /\ platform \in Platforms
    /\ AuxIdle
    /\ ExIdle /\ PuIdle /\ AppIdle
    /\ ckPc = "retry-loop"
    /\ ckCurrent = IdleVersion
    /\ ckResp = NoResponse
    /\ ckAttempt = 0
    /\ ckSleeps = 0
    /\ ckError = "none"
    /\ ckMax \in 1..MaxRetryArg
    /\ ckLog = <<>>
    /\ ckResult = "none"

NextRetry == RR_Attempt

SpecRetry == RetryInit /\ [][NextRetry]_vars

\* The application from the automatic check of main on.
AppInit ==
    /\ platform \in Platforms
    /\ AuxIdle
    /\ ExIdle /\ PuIdle /\ CkIdle
    /\ mainPc = "autocheck"
    /\ alive = TRUE
    /\ updateLock = FALSE
    /\ worker = [w \in Workers |-> "unborn"]
    /\ ran = {}
    /\ handoff = FALSE
    /\ lateStep = FALSE
    /\ ticks = 0

NextApp ==
    \/ Main_AutoCheck \/ Main_AutoUpdate \/ Main_StartTray
    \/ Monitor_Tick \/ Tray_Quit \/ Relauncher_Kill
    \/ \E w \in Workers :
          \/ Tray_CheckNow(w) \/ W_Acquire(w) \/ W_Check(w)
          \/ W_Prompt(w) \/ W_Update(w) \/ W_Finally(w)

SpecApp == AppInit /\ [][NextApp]_vars

\* The relauncher script from the moment perform_update writes it, in a
\* frozen build on win32 with the package staged.
ScriptInit ==
    /\ platform = "win32"
    /\ ExIdle /\ PuIdle /\ CkIdle /\ AppIdle
    /\ env \in Envs
    /\ batPath = NoPath
    /\ rlPc = "unwritten"
    /\ roboExit = -1
    /\ exePresent \in BOOLEAN
    /\ stagedZip = "file"
    /\ stagedTmp = "dir"
    /\ relaunched = FALSE
    /\ rlExit = -1
    /\ ClIdle
    /\ CsIdle
    /\ MoreIdle

NextScript ==
    \/ RL_Write /\ UNCHANGED <<platform, exVars, puVars, ckVars, appVars>>
    \/ RL_Kill /\ UNCHANGED <<platform, exVars, puVars, ckVars, appVars>>
    \/ RL_Robocopy /\ UNCHANGED <<platform, exVars, puVars, ckVars, appVars>>
    \/ RL_CheckExit /\ UNCHANGED <<platform, exVars, puVars, ckVars, appVars>>
    \/ RL_CheckExe /\ UNCHANGED <<platform, exVars, puVars, ckVars, appVars>>
    \/ RL_Cleanup /\ UNCHANGED <<platform, exVars, puVars, ckVars, appVars>>
    \/ RL_Restart /\ UNCHANGED <<platform, exVars, puVars, ckVars, appVars>>

SpecScript == ScriptInit /\ [][NextScript]_vars

\* cleanup_update_artifacts() for whatever lies at the two paths.
CleanupInit ==
    /\ platform \in Platforms
    /\ ExIdle /\ PuIdle /\ CkIdle /\ AppIdle
    /\ env = [TEMP |-> Unset, TMP |-> Unset]
    /\ batPath = NoPath
    /\ rlPc = "idle"
    /\ roboExit = -1
    /\ exePresent = TRUE
    /\ stagedZip \in ArtifactKinds
    /\ stagedTmp \in ArtifactKinds
    /\ relaunched = FALSE
    /\ rlExit = -1
    /\ clPc = "zip"
    /\ zip_cleaned = FALSE
    /\ folder_cleaned = FALSE
    /\ clRet = "none"
    /\ CsIdle
    /\ MoreIdle

NextCleanup ==
    \/ CL_Zip /\ UNCHANGED <<platform, exVars, puVars, ckVars, appVars>>
    \/ CL_Folder /\ UNCHANGED <<platform, exVars, puVars, ckVars, appVars>>

SpecCleanup == CleanupInit /\ [][NextCleanup]_vars

\* _is_valid_checksum() for any argument, then lines 629-636 and 672-674.
ChecksumInit ==
    /\ platform = "win32"
    /\ ExIdle /\ PuIdle /\ CkIdle /\ AppIdle
    /\ env = [TEMP |-> Unset, TMP |-> Unset]
    /\ batPath = NoPath
    /\ rlPc = "idle"
    /\ roboExit = -1
    /\ exePresent = TRUE
    /\ stagedZip = "absent"
    /\ stagedTmp = "absent"
    /\ relaunched = FALSE
    /\ rlExit = -1
    /\ ClIdle
    /\ MoreIdle
    /\ candidate \in Arguments
    /\ csPc = "call"
    /\ csValid = "none"
    /\ csExpected = NoExpected

NextChecksum ==
    \/ CS_IsValid /\ UNCHANGED <<platform, exVars, puVars, ckVars, appVars>>
    \/ CS_Use /\ UNCHANGED <<platform, exVars, puVars, ckVars, appVars>>
    \/ CS_Verify /\ UNCHANGED <<platform, exVars, puVars, ckVars, appVars>>

SpecChecksum == ChecksumInit /\ [][NextChecksum]_vars

\* _calculate_sha256() and _verify_checksum() for any file and any hash.
ShaInit ==
    /\ platform = "win32"
    /\ ExIdle /\ PuIdle /\ CkIdle /\ AppIdle
    /\ RlIdle /\ ClIdle /\ CsIdle
    /\ shFile \in FileBodies
    /\ shExpected \in ExpectedHashes
    /\ shDigests = <<>>
    /\ shRet = "none"
    /\ UrlIdle /\ MxIdle /\ CfgIdle /\ ScIdle

ShaFrame == <<platform, exVars, puVars, ckVars, appVars, rlVars, clVars, csVars, urlVars,
              mxVars, cfgVars, scVars>>

NextSha ==
    \/ SHA_Calculate /\ UNCHANGED ShaFrame
    \/ SHA_Verify /\ UNCHANGED ShaFrame

SpecSha == ShaInit /\ [][NextSha]_vars

\* _is_valid_url() for any argument.
UrlInit ==
    /\ platform = "win32"
    /\ ExIdle /\ PuIdle /\ CkIdle /\ AppIdle
    /\ RlIdle /\ ClIdle /\ CsIdle /\ ShIdle
    /\ urlArg \in UrlArguments
    /\ urlRet = "none"
    /\ MxIdle /\ CfgIdle /\ ScIdle

UrlFrame == <<platform, exVars, puVars, ckVars, appVars, rlVars, clVars, csVars, shVars,
              mxVars, cfgVars, scVars>>

NextUrl == URL_IsValid /\ UNCHANGED UrlFrame

SpecUrl == UrlInit /\ [][NextUrl]_vars

\* SingleInstanceMutex objects of any names, used in any order.
MutexInit ==
    /\ platform = "win32"
    /\ ExIdle /\ PuIdle /\ CkIdle /\ AppIdle
    /\ RlIdle /\ ClIdle /\ CsIdle /\ ShIdle /\ UrlIdle
    /\ mxName \in [MutexObjects -> MutexNames]
    /\ mxThread \in [MutexObjects -> MutexThreads]
    /\ mxHandle = [o \in MutexObjects |-> FALSE]
    /\ mxOpen = [n \in MutexNames |-> 0]
    /\ mxOwner = [n \in MutexNames |-> 0]
    /\ mxLog = <<>>
    /\ CfgIdle /\ ScIdle

MutexFrame == <<platform, exVars, puVars, ckVars, appVars, rlVars, clVars, csVars, shVars,
                urlVars, cfgVars, scVars>>

NextMutex ==
    \/ \E o \in MutexObjects : MX_Acquire(o) /\ UNCHANGED MutexFrame
    \/ \E o \in MutexObjects : MX_Release(o) /\ UNCHANGED MutexFrame

SpecMutex == MutexInit /\ [][NextMutex]_vars

\* validate_config() for any config.
ConfigInit ==
    /\ platform = "win32"
    /\ ExIdle /\ PuIdle /\ CkIdle /\ AppIdle
    /\ RlIdle /\ ClIdle /\ CsIdle /\ ShIdle /\ UrlIdle /\ MxIdle
    /\ cfgIn \in Configs
    /\ cfgOut = NoOutcome
    /\ ScIdle

ConfigFrame == <<platform, exVars, puVars, ckVars, appVars, rlVars, clVars, csVars, shVars,
                 urlVars, mxVars, scVars>>

NextConfig == CFG_Validate /\ UNCHANGED ConfigFrame

SpecConfig == ConfigInit /\ [][NextConfig]_vars

\* The parsing of any sidecar for either package name.
SidecarInit ==
    /\ platform \in Platforms
    /\ ExIdle /\ PuIdle /\ CkIdle /\ AppIdle
    /\ RlIdle /\ ClIdle /\ CsIdle /\ ShIdle /\ UrlIdle /\ MxIdle /\ CfgIdle
    /\ scLines \in SumFiles
    /\ scAsset \in {"Release.zip", "source.zip"}
    /\ scExpected = NoChecksum
    /\ scPc = "fetched"

SidecarFrame == <<platform, exVars, puVars, ckVars, appVars, rlVars, clVars, csVars, shVars,
                  urlVars, mxVars, cfgVars>>

NextSidecar == SC_Parse /\ UNCHANGED SidecarFrame

SpecSidecar == SidecarInit /\ [][NextSidecar]_vars

\* ================================================================== claims
Range(q) == {q[i] : i \in 1..Len(q)}

Rank(stage) == CHOOSE i \in 1..Len(StageOrder) : StageOrder[i] = stage

\* The lowest depth, relative to the extraction root, that walking the parts
\* of a relative name passes through.
RECURSIVE LowestDepth(_, _, _)
LowestDepth(comps, depth, lowest) ==
    IF comps = <<>> THEN lowest
    ELSE LET c == Head(comps)
             d == IF c \in {"", "."} THEN depth
                  ELSE IF c = ".." THEN depth - 1 ELSE depth + 1
         IN LowestDepth(Tail(comps), d, IF d < lowest THEN d ELSE lowest)

\* The member's name leads out of the extraction root: it names another
\* drive, it is rooted, or its ".." parts climb above the root. (No part of a
\* member name spells a directory on the root's own path, so a name that has
\* left the root cannot come back into it.)
Escapes(pf, m) ==
    \/ pf = "win32" /\ m.drive # ""
    \/ IsRooted(pf, m)
    \/ LowestDepth(NameComps(pf, m), 0, 0) < 0

\* C1: safe_extract writes nothing outside the extraction root, and a member
\* whose destination is outside the root is rejected with PathTraversalError
\* at its own position, before it is handed to zip_ref.extract.
C1_NoWriteOutsideRoot ==
    /\ \A e \in tree : IsPrefix(ExtractFolder, e.path) /\ e.path # ExtractFolder
    /\ (exLast.verdict # "none" /\ Escapes(platform, exLast.m))
          => /\ exLast.verdict = "traversal"
             /\ exStatus = "traversal"
             /\ exRejected = exPos
             /\ exCount < exPos

C1_Witness ==
    /\ exStatus = "traversal"
    /\ Escapes(platform, exLast.m)
    /\ exCount > 0
    /\ tree # {}

\* C2: once safe_extract has rejected the member at position i, exactly the
\* i-1 members before it were extracted and none at i or later, and
\* perform_update returns False without writing or launching the relauncher.
C2_RejectionAppliesNothing ==
    exRejected > 0
       => /\ exStatus = "traversal"
          /\ exPos = exRejected
          /\ exCount = exRejected - 1
          /\ ~batWritten /\ ~batLaunched
          /\ pc \in {"extracting", "returned"}
          /\ (pc = "returned" => result = "False")

C2_Witness ==
    /\ exRejected = 2
    /\ tree # {}
    /\ pc = "returned"
    /\ result = "False"

\* C3: a well-formed expected checksum that differs from the package's
\* SHA-256 makes the update return False with the package file deleted, and
\* neither extraction nor handoff is started.
C3_MismatchFailsUpdate ==
    mismatch
       => /\ pc = "returned" /\ result = "False" /\ failedAt = "verify"
          /\ zipFile = "absent"
          /\ "extract" \notin Range(stages) /\ exStatus = "idle" /\ tmpDir # "fresh"
          /\ "script" \notin Range(stages) /\ ~batWritten /\ ~batLaunched

C3_Witness == mismatch /\ pc = "returned" /\ zipFile = "absent"

\* C4: when perform_update returns False after the download began and before
\* the handoff stage, nothing this run staged is left behind: no update_pkg.zip
\* it wrote (in part or in full) and no update_tmp it created.
C4_FailureLeavesNothingStaged ==
    (pc = "returned" /\ result = "False"
        /\ "download" \in Range(stages) /\ "script" \notin Range(stages))
       => zipFile \notin {"partial", "complete"} /\ tmpDir # "fresh"

\* The stages of one run come in the fixed order, each at most once.
StagesOrdered ==
    \A i \in 1..(Len(stages) - 1) : Rank(stages[i]) < Rank(stages[i + 1])

\* C5: the stages run in the fixed order, each at most once, and a stage that
\* fails is the last one to run and makes perform_update return False.
C5_StagesInFixedOrder ==
    /\ StagesOrdered
    /\ failedAt # "none"
          => /\ stages[Len(stages)] = failedAt
             /\ pc = "returned"
             /\ result = "False"

SemverSuffixRank(suf) ==
    CASE suf = "-1" -> 1
      [] suf = "-alpha" -> 2
      [] suf = "-rc" -> 3
      [] OTHER -> 4

\* a < b under Semantic Versioning.
SemverLess(a, b) ==
    \/ a.rel[1] < b.rel[1]
    \/ a.rel[1] = b.rel[1] /\ a.rel[2] < b.rel[2]
    \/ a.rel[1] = b.rel[1] /\ a.rel[2] = b.rel[2] /\ a.rel[3] < b.rel[3]
    \/ a.rel = b.rel /\ SemverSuffixRank(a.suf) < SemverSuffixRank(b.suf)

\* check_for_updates has answered a request whose body carried a version tag.
CheckedVersionTag ==
    /\ ckPc = "done"
    /\ ckError = "none"
    /\ ckResp.kind = "dict"
    /\ ckResp.tag.kind = "string"
    /\ ckResp.tag.str.body.kind = "version"

\* C6: check_for_updates returns the release data exactly when the current
\* version is lower than the remote tag's version under Semantic Versioning,
\* with or without leading 'v': never for an equal or a lower remote version.
C6_NewerVersionsOnly ==
    CheckedVersionTag
       => (ckResult = "data" <=> SemverLess(ckCurrent.body, ckResp.tag.str.body))

\* The same for versions that are MAJOR.MINOR.PATCH with nothing or a named
\* pre-release after it.
NewerVersionsOnlyWithoutNumericPreRelease ==
    (CheckedVersionTag /\ ckCurrent.body.suf # "-1" /\ ckResp.tag.str.body.suf # "-1")
       => (ckResult = "data" <=> SemverLess(ckCurrent.body, ckResp.tag.str.body))

\* The metadata request or its body is one of the failures: no answer after
\* all retries, an HTTP error, a body that is no JSON object, a tag that is
\* missing, empty, no string, or no version.
CheckFailed ==
    \/ ckError # "none"
    \/ ckResp.kind # "dict"
    \/ ckResp.tag.kind # "string"
    \/ ckResp.tag.str.body.kind # "version"

\* C7: check_for_updates never raises, and on every failure of the request
\* or of its body it returns None.
C7_CheckFailsOpen ==
    ckPc = "done"
       => /\ ckResult \in {"None", "data"}
          /\ CheckFailed => ckResult = "None"

C7_Witness ==
    /\ ckPc = "done"
    /\ ckError = "none"
    /\ ckResp.kind = "dict"
    /\ ckResp.tag.kind = "non-string"
    /\ ckResult = "None"

\* C9: once a perform_update has launched the relauncher, the process is gone
\* and no application step has been executed since.
C9_ExitsAfterHandoff == handoff => (~alive /\ ~lateStep)

\* Update runs in flight: the automatic one of main, and the run_check
\* threads that hold update_lock.
RunsInFlight ==
    Cardinality({w \in Workers : worker[w] \in InRun})
        + (IF mainPc \in {"autocheck", "autoupdate"} THEN 1 ELSE 0)

\* C10: at most one update run is in flight; a trigger that found a run in
\* flight has returned and has not called check_for_updates.
C10_OneUpdateRun ==
    /\ RunsInFlight <= 1
    /\ updateLock <=> (\E w \in Workers : worker[w] \in InRun)
    /\ \A w \in Workers : worker[w] = "dropped" => w \notin ran

C10_Witness ==
    \E w1, w2 \in Workers :
        /\ worker[w1] = "update"
        /\ worker[w2] = "dropped"
        /\ w2 \notin ran

\* The network location is github.com or githubusercontent.com, or a
\* dot-separated subdomain of one of them.
TrustedHost(netloc) ==
    \/ netloc \in {<<"github.com">>, <<"githubusercontent.com">>}
    \/ /\ Len(netloc) = 2
       /\ netloc[1] \in {"api.", "objects.", "raw."}
       /\ netloc[2] \in {"github.com", "githubusercontent.com"}

\* The url is an HTTPS URL on an allow-listed host.
HttpsOnTrustedHost(url) ==
    /\ url \notin {None, Missing, ""}
    /\ UrlParse(url).scheme = "https"
    /\ TrustedHost(UrlParse(url).netloc)

\* C11: whenever the package asset selected by perform_update has a URL that
\* is not an HTTPS URL on an allow-listed host, the run has returned False
\* without any request and without writing update_pkg.zip.
C11_UnsafePackageUrlAborts ==
    (plan.asset_url # None /\ ~HttpsOnTrustedHost(plan.asset_url))
       => /\ pc = "returned" /\ result = "False"
          /\ netLog = <<>>
          /\ zipFile \notin {"partial", "complete"}

\* The same for the URLs that _is_valid_url itself turns down.
RejectedPackageUrlAborts ==
    (plan.asset_url # None /\ ~IsValidUrl(plan.asset_url))
       => /\ pc = "returned" /\ result = "False" /\ failedAt = "resolve"
          /\ netLog = <<>>
          /\ zipFile \notin {"partial", "complete"}

RejectedPackageUrlReached ==
    plan.asset_url = BadUrl /\ pc = "returned"

\* C12: a step of perform_update that finds the checksum sidecar's URL not to
\* be an HTTPS URL on an allow-listed host ends the run with False; the
\* package is not downloaded.
C12_UnsafeChecksumUrlAborts ==
    [][(pc = "checksum" /\ plan.checksum_url # None
           /\ ~HttpsOnTrustedHost(plan.checksum_url))
          => (pc' = "returned" /\ result' = "False" /\ netLog' = netLog)]_vars

\* C13: once the metadata request has been answered with HTTP 403 and no
\* rate limit left, no further request is issued: check_for_updates is done
\* after exactly one request and has returned None.
C13_RateLimitNotRetried ==
    (\E i \in 1..Len(ckLog) : ckLog[i] = "http-403-rate-limit")
       => /\ Len(ckLog) = 1
          /\ ckPc = "done"
          /\ ckResult = "None"

\* What the code does on a rate-limited answer: it is retried like any other
\* failure, and the check returns None when the last attempt has failed.
RateLimitRetriedThenNone ==
    (ckLog # <<>> /\ ckLog[Len(ckLog)] = "http-403-rate-limit")
       => \/ ckPc = "request" /\ Len(ckLog) < MaxRetries
          \/ ckPc = "done" /\ Len(ckLog) = MaxRetries /\ ckResult = "None"

RateLimitRetriedReached ==
    /\ ckPc = "done"
    /\ ckLog = <<"http-403-rate-limit", "http-403-rate-limit", "http-403-rate-limit">>

\* The requests of ckLog before the last one all failed.
EarlierAttemptsFailed ==
    \A i \in 1..(Len(ckLog) - 1) : ckLog[i] # "ok"

\* C14: _request_with_retry(url, max_retries = N) never issues more than N
\* requests and is still short of N while it is in its loop; when it returns,
\* the k-th request was the first to succeed, k requests were issued and
\* k - 1 sleeps taken; when it raises, N requests were issued, all failed,
\* N - 1 sleeps were taken and the exception is that of the last attempt.
C14_RetryBoundedAndCounted ==
    /\ Len(ckLog) <= ckMax
    /\ EarlierAttemptsFailed
    /\ ckPc = "retry-loop" =>
          /\ Len(ckLog) < ckMax
          /\ Len(ckLog) = ckAttempt
          /\ ckSleeps = Len(ckLog)
    /\ ckPc = "retry-returned" =>
          /\ ckLog[Len(ckLog)] = "ok"
          /\ ckSleeps = Len(ckLog) - 1
          /\ ckError = "none"
    /\ ckPc = "retry-raised" =>
          /\ Len(ckLog) = ckMax
          /\ ckLog[ckMax] # "ok"
          /\ ckError = ckLog[ckMax]
          /\ ckSleeps = ckMax - 1

C14_Witness ==
    /\ ckMax = 3
    /\ ckPc = "retry-raised"
    /\ ckLog = <<"connection-error", "http-500", "http-403">>
    /\ ckSleeps = 2

RetryThirdAttemptSucceeds ==
    ckPc = "retry-returned" /\ Len(ckLog) = 3 /\ ckSleeps = 2

\* The assets of a list that can be the package: dicts whose name ends in
\* ".zip" (a checksum sidecar's name never does).
IsPackageCandidate(a) == a.isDict /\ a.name # NonString /\ EndsWithZip(a.name)

\* Index of the first package candidate whose name holds "release" or the
\* repository name; else of the first package candidate; 0 when there is none.
FirstChoice(items) ==
    LET preferred  == {i \in 1..Len(items) :
                          IsPackageCandidate(items[i]) /\ IsPreferredName(items[i].name)}
        candidates == {i \in 1..Len(items) : IsPackageCandidate(items[i])}
        Min(S)     == CHOOSE i \in S : \A j \in S : i <= j
    IN IF preferred # {} THEN Min(preferred)
       ELSE IF candidates # {} THEN Min(candidates)
       ELSE 0

\* C15: the package perform_update settles on is the first asset, in list
\* order, whose name ends in ".zip" and holds "release" or the repository
\* name; when there is none it is the first asset whose name ends in ".zip".
C15_FirstPreferredAssetChosen ==
    [][(pc = "resolve" /\ plan'.asset_url # None)
          => LET i == FirstChoice(release.assets.items) IN
             /\ i # 0
             /\ plan'.asset_url = release.assets.items[i].url
             /\ plan'.asset_name = release.assets.items[i].name]_vars

\* With at most one asset under a preferred name the choice is as claimed.
OnePreferredAtMost(items) ==
    Cardinality({i \in 1..Len(items) :
                    IsPackageCandidate(items[i]) /\ IsPreferredName(items[i].name)}) <= 1

FirstChoiceWhenOnePreferred ==
    [][(pc = "resolve" /\ plan'.asset_url # None /\ OnePreferredAtMost(release.assets.items))
          => LET i == FirstChoice(release.assets.items) IN
             /\ i # 0
             /\ plan'.asset_url = release.assets.items[i].url
             /\ plan'.asset_name = release.assets.items[i].name]_vars

\* The asset list perform_update iterates: release_data.get("assets", []).
AssetList(r) == IF r.assets.kind = "list" THEN r.assets.items ELSE <<>>

NoZipAsset(r) ==
    /\ r.assets.kind \in {"list", "missing"}
    /\ FirstChoice(AssetList(r)) = 0

\* C16: when the asset list holds no asset whose name ends in ".zip"
\* (the empty list included), the asset step of perform_update returns False;
\* no request has been issued and update_pkg.zip and update_tmp are as
\* they were.
C16_NoZipAssetReturnsFalse ==
    [][(pc = "resolve" /\ NoZipAsset(release))
          => /\ pc' = "returned" /\ result' = "False"
             /\ netLog' = <<>>
             /\ zipFile' = zipFile /\ tmpDir' = tmpDir]_vars

\* Every entry of the list is a dict whose name, when present, is a string.
WellFormedEntries(items) ==
    \A i \in 1..Len(items) : items[i].isDict /\ items[i].name # NonString

\* The same for lists of well-formed entries.
NoZipAmongWellFormedReturnsFalse ==
    [][(pc = "resolve" /\ NoZipAsset(release) /\ WellFormedEntries(AssetList(release)))
          => /\ pc' = "returned" /\ result' = "False"
             /\ netLog' = <<>>
             /\ zipFile' = zipFile /\ tmpDir' = tmpDir]_vars

NoZipAssetReached ==
    /\ pc = "returned" /\ failedAt = "resolve"
    /\ plan = NoPlan
    /\ netLog = <<>>

\* Both preflight checks have run, the directory check first, and passed.
PreflightPassed ==
    /\ \E i, j \in 1..Len(stages) :
          i < j /\ stages[i] = "writable" /\ stages[j] = "diskspace"
    /\ pc \notin {"writable", "diskspace"}
    /\ failedAt \notin {"writable", "diskspace"}

\* C17: a step of perform_update issues a request only when both preflight
\* checks have passed; a step in which one of them fails returns False with
\* no request issued and with the install directory as it was before the
\* call: no .update_write_test, update_pkg.zip and update_tmp untouched, no
\* relaunch script.
C17_PreflightBeforeNetwork ==
    [][/\ netLog' # netLog => PreflightPassed
       /\ (pc \in {"writable", "diskspace"} /\ pc' = "returned")
             => /\ result' = "False"
                /\ netLog' = <<>>
                /\ writeTest' = "absent"
                /\ UNCHANGED <<zipFile, zipBody, tmpDir, batWritten>>]_vars

\* The same without the test file of the directory check.
PreflightBeforeNetworkButTestFile ==
    [][/\ netLog' # netLog => PreflightPassed
       /\ (pc \in {"writable", "diskspace"} /\ pc' = "returned")
             => /\ result' = "False"
                /\ netLog' = <<>>
                /\ UNCHANGED <<zipFile, zipBody, tmpDir, batWritten>>]_vars

PreflightFailureReached ==
    /\ pc = "returned" /\ failedAt = "diskspace"
    /\ netLog = <<>> /\ writeTest = "absent"

\* A tag string with a character outside [a-zA-Z0-9._-].
HasUnsafeChar(tag) ==
    \E i \in 1..Len(TagChars(tag)) : TagChars(tag)[i] \notin SafeChars

\* The release data C18 is about; 'assets': null counts as no value.
Malformed(r) ==
    \/ ~r.isDict
    \/ r.tag \in {Missing, "", NonString}
    \/ HasUnsafeChar(r.tag)
    \/ r.assets.kind = "non-list"

\* C18: for release data that is no dict, lacks tag_name, has an empty or
\* non-string tag_name, has a tag_name with a character outside
\* [a-zA-Z0-9._-], or has 'assets' that is no list, the first step of
\* perform_update returns False; nothing has been written and no request made.
C18_MalformedReleaseRejected ==
    [][(pc = "validate" /\ Malformed(release))
          => /\ pc' = "returned" /\ result' = "False" /\ failedAt' = "validate"
             /\ netLog' = <<>>
             /\ UNCHANGED <<zipFile, zipBody, tmpDir, batWritten, writeTest>>]_vars

\* The same for every malformed release but the tag that ends in a newline.
MalformedButNewlineRejected ==
    [][(pc = "validate" /\ Malformed(release) /\ release.tag # "v2.0.0\n")
          => /\ pc' = "returned" /\ result' = "False" /\ failedAt' = "validate"
             /\ netLog' = <<>>
             /\ UNCHANGED <<zipFile, zipBody, tmpDir, batWritten, writeTest>>]_vars

MalformedRejectedReached ==
    /\ pc = "returned" /\ failedAt = "validate"
    /\ release.isDict /\ release.tag = "v2.0.0;calc"

\* C19: when the response declares a content length above MAX_DOWNLOAD_SIZE,
\* _download_with_progress raises without having opened the destination:
\* nothing is written and update_pkg.zip is as it was before the call.
C19_OversizedRejectedBeforeOpen ==
    [][(pc = "download" /\ dlInput.request = "ok"
           /\ dlInput.declared > MAX_DOWNLOAD_SIZE)
          => /\ dlRaised'.raised = "ValueError"
             /\ ~dlRaised'.opened
             /\ dlRaised'.downloaded = 0
             /\ zipFile' = zipFile]_vars

C19_Witness ==
    /\ pc = "returned"
    /\ dlInput.request = "ok"
    /\ dlInput.declared = MAX_DOWNLOAD_SIZE + 1
    /\ dlInput.chunks = <<40, 40>>
    /\ dlRaised.raised = "ValueError"
    /\ zipFile = "absent"

\* The bytes a stream delivers.
RECURSIVE StreamLength(_)
StreamLength(chunks) ==
    IF chunks = <<>> THEN 0 ELSE Head(chunks) + StreamLength(Tail(chunks))

\* The response declares its length, and the stream runs to its end with a
\* number of bytes written that differs from it (more than a tenth above
\* the declared length is cut off before the end).
EndsOffLength(i) ==
    /\ i.request = "ok"
    /\ i.ending = "eof"
    /\ i.declared > 0 /\ i.declared <= MAX_DOWNLOAD_SIZE
    /\ StreamLength(i.chunks) # i.declared
    /\ StreamLength(i.chunks) <= i.declared + i.declared \div 10

\* C20: when the declared content length is known and the stream ends with
\* a different number of bytes written, _download_with_progress raises the
\* incomplete-download IOError, and the download step of perform_update
\* removes update_pkg.zip and returns False.
C20_IncompleteDownloadRemoved ==
    [][(pc = "download" /\ EndsOffLength(dlInput))
          => /\ dlRaised'.raised = "IOError-incomplete"
             /\ dlRaised'.downloaded = StreamLength(dlInput.chunks)
             /\ pc' = "returned" /\ result' = "False"
             /\ zipFile' = "absent"]_vars

C20_Witness ==
    /\ pc = "returned" /\ result = "False"
    /\ dlInput.declared = 40
    /\ dlInput.chunks = <<40, 4>>
    /\ dlRaised.raised = "IOError-incomplete"
    /\ dlRaised.downloaded = 44
    /\ zipFile = "absent"

IncompleteShortReached ==
    /\ pc = "returned"
    /\ dlRaised = [raised |-> "IOError-incomplete", opened |-> TRUE,
                   total_size |-> 40, downloaded |-> 4]

\* The bytes of the first k chunks of a stream.
Received(chunks, k) == StreamLength(SubSeq(chunks, 1, k))

\* 1.1 x L, rounded down.
Tolerance(L) == L + L \div 10

\* The chunks of the stream at which the bytes received exceed 1.1 x L.
Exceeding(i) ==
    {k \in 1..Len(i.chunks) : Received(i.chunks, k) > Tolerance(i.declared)}

FirstExceeding(i) == CHOOSE k \in Exceeding(i) : \A j \in Exceeding(i) : k <= j

\* C21: a download whose declared length L is known and whose stream comes
\* to exceed 1.1 x L is aborted with an error at the first chunk that takes
\* it there: that chunk is the last one written, so what has been written
\* exceeds 1.1 x L by less than one chunk.
C21_OverrunAbortsAtOnce ==
    [][(pc = "download" /\ dlInput.request = "ok"
           /\ dlInput.declared > 0 /\ dlInput.declared <= MAX_DOWNLOAD_SIZE
           /\ Exceeding(dlInput) # {})
          => LET k == FirstExceeding(dlInput) IN
             /\ dlRaised'.raised = "IOError-exceeded"
             /\ dlRaised'.downloaded = Received(dlInput.chunks, k)
             /\ dlRaised'.downloaded - dlInput.chunks[k] <= Tolerance(dlInput.declared)
             /\ pc' = "returned" /\ result' = "False"]_vars

C21_Witness ==
    /\ pc = "returned"
    /\ dlInput.declared = 4
    /\ dlInput.chunks = <<40, 40>>
    /\ dlRaised.raised = "IOError-exceeded"
    /\ dlRaised.downloaded = 40

\* The longest chunk of a stream.
LongestChunk(chunks) ==
    IF chunks = <<>> THEN 0
    ELSE CHOOSE c \in Range(chunks) : \A e \in Range(chunks) : e <= c

\* C22: whatever the server sends, the download step ends with no more
\* than 1.1 x MAX_DOWNLOAD_SIZE plus one chunk written to update_pkg.zip.
C22_WrittenBytesBounded ==
    pc # "download"
       => dlRaised.downloaded <= Tolerance(MAX_DOWNLOAD_SIZE) + LongestChunk(dlInput.chunks)

\* The same for the responses that declare their length.
WrittenBytesBoundedWhenDeclared ==
    (pc # "download" /\ dlInput.declared > 0)
       => dlRaised.downloaded <= Tolerance(MAX_DOWNLOAD_SIZE) + LongestChunk(dlInput.chunks)

UndeclaredLengthUncapped ==
    /\ pc \in {"verify", "extract"}
    /\ dlInput.declared = 0
    /\ dlRaised.raised = "none"
    /\ dlRaised.downloaded = 3 * MAX_DOWNLOAD_SIZE
    /\ zipFile = "complete"

\* The destination safe_extract resolves for the member it handled last.
LastDestination == MemberPath(platform, exLast.m)

\* A path on the root's drive that lies below the extraction root.
StrictDescendant(p) ==
    /\ p.drive = RootDrive
    /\ IsPrefix(ExtractFolder, p.comps)
    /\ p.comps # ExtractFolder

\* C23: a member that safe_extract has handled and whose resolved
\* destination is not strictly below the extraction root, the root itself
\* included, has been rejected with PathTraversalError.
C23_NonDescendantRejected ==
    (exLast.m # NoMember /\ ~IsBlankName(exLast.m)
        /\ ~StrictDescendant(LastDestination))
       => exLast.verdict = "traversal"

\* The same for destinations that are neither the root nor below it.
OutsideRootRejected ==
    (exLast.m # NoMember /\ ~IsBlankName(exLast.m)
        /\ ~StrictDescendant(LastDestination)
        /\ LastDestination.comps # ExtractFolder)
       => exLast.verdict = "traversal"

RootItselfAccepted ==
    /\ exLast.m.drive = "" /\ exLast.m.parts = <<"a", "..">> /\ exLast.m.sep = "/"
    /\ exLast.verdict = "extract"
    /\ exStatus = "running"

\* The entries a member adds when it lands at its own relative path: the
\* entry at its resolved destination and the directories leading to it.
OwnEntries(pf, m) ==
    LET dest == MemberPath(pf, m).comps IN
    {[path |-> q, kind |-> "dir"] : q \in ProperPrefixes(dest)}
       \cup {[path |-> dest, kind |-> IF IsDirMember(pf, m) THEN "dir" ELSE "file"]}

\* C24: every member that passes the checks is extracted without error and
\* adds to the extraction root exactly the entry at its own relative path
\* (with the directories leading to it), so that an archive whose members all
\* pass leaves exactly its member paths under the root.
C24_PassingMembersLandInPlace ==
    [][(exStatus = "running" /\ exPos' = exPos + 1 /\ exLast'.verdict = "extract")
          => /\ exStatus' = "running"
             /\ tree' = tree \cup OwnEntries(platform, exLast'.m)]_vars

\* The same for members whose destination is below the root and free: no
\* file on the way to it, and nothing of the other kind in its place.
FreeMembersLandInPlace ==
    [][(exStatus = "running" /\ exPos' = exPos + 1 /\ exLast'.verdict = "extract"
           /\ StrictDescendant(MemberPath(platform, exLast'.m))
           /\ ~ExtractRaises(tree, platform, exLast'.m))
          => /\ exStatus' = "running"
             /\ tree' = tree \cup OwnEntries(platform, exLast'.m)]_vars

TwoMembersInPlace ==
    /\ exStatus = "returned"
    /\ tree = {[path |-> ExtractFolder \o <<"a">>, kind |-> "dir"],
               [path |-> ExtractFolder \o <<"a", "b">>, kind |-> "file"],
               [path |-> ExtractFolder \o <<"b">>, kind |-> "file"]}

\* The step in which perform_update calls _flatten_nested_folder.
FlattenCalled == pc = "extracting" /\ exStatus = "returned" /\ flRet' # flRet

\* The root holds exactly one top-level entry, and it is a directory.
SingleWrapper(t) ==
    /\ Cardinality(TopLevel(t)) = 1
    /\ \A e \in TopLevel(t) : e.kind = "dir"

\* The tree with the children of its single wrapper moved up one level and
\* the wrapper gone.
Unwrapped(t) ==
    LET w == CHOOSE e \in TopLevel(t) : TRUE IN
    {[path |-> SubSeq(e.path, 1, Len(Root)) \o SubSeq(e.path, Len(Root) + 2, Len(e.path)),
      kind |-> e.kind] : e \in t \ {w}}

\* C25: _flatten_nested_folder returns True exactly when the root holds one
\* top-level entry that is a directory; then the root's entries afterwards
\* are that directory's former children and the wrapper is gone; in every
\* other case it returns False and leaves the tree as it was.
C25_FlattenExactlySingleWrapper ==
    [][FlattenCalled
          => /\ flRet' = "True" <=> SingleWrapper(tree)
             /\ tree' = IF SingleWrapper(tree) THEN Unwrapped(tree) ELSE tree]_vars

\* A child of the wrapper that carries the wrapper's own name.
NameClash(t) ==
    /\ SingleWrapper(t)
    /\ \E w \in TopLevel(t) : \E k \in t :
          /\ Len(k.path) = Len(w.path) + 1
          /\ IsPrefix(w.path, k.path)
          /\ k.path[Len(k.path)] = w.path[Len(w.path)]

\* The same when no child of the wrapper carries the wrapper's name.
FlattenExactlyWithoutClash ==
    [][(FlattenCalled /\ ~NameClash(tree))
          => /\ flRet' = "True" <=> SingleWrapper(tree)
             /\ tree' = IF SingleWrapper(tree) THEN Unwrapped(tree) ELSE tree]_vars

FlattenedReached ==
    /\ flRet = "True"
    /\ tree = {[path |-> ExtractFolder \o <<"b">>, kind |-> "file"]}

\* C26: a call of _flatten_nested_folder that returns False leaves the tree
\* under the extraction root as it was before the call.
C26_FailedFlattenLeavesTree ==
    [][(FlattenCalled /\ flRet' = "False") => tree' = tree]_vars

\* The same when no child of the wrapper carries the wrapper's name.
FailedFlattenLeavesTreeWithoutClash ==
    [][(FlattenCalled /\ flRet' = "False" /\ ~NameClash(tree)) => tree' = tree]_vars

ClashEmptiesRoot ==
    /\ flRet = "False"
    /\ "flatten" \in Range(stages)
    /\ exCount > 0
    /\ tree = {}

\* C27: the relauncher script deletes the staged package or the extraction
\* directory, or starts the application, only when robocopy ended with a
\* code in 0..7 and the main executable exists; when the code is 8 or more
\* or the executable is missing, the script ends with exit code 1, both
\* staged artifacts still there and nothing started.
C27_CleanupAndRelaunchOnlyAfterGoodCopy ==
    /\ (relaunched \/ stagedZip = "absent" \/ stagedTmp = "absent")
          => roboExit \in 0..7 /\ exePresent
    /\ (rlPc = "exited" /\ (roboExit >= 8 \/ ~exePresent))
          => /\ rlExit = 1
             /\ ~relaunched
             /\ stagedZip = "file" /\ stagedTmp = "dir"

C27_Witness ==
    /\ rlPc = "exited"
    /\ roboExit = 8
    /\ exePresent
    /\ rlExit = 1
    /\ ~relaunched

RelaunchedAfterGoodCopy ==
    /\ rlPc = "exited" /\ rlExit = 0
    /\ roboExit = 7
    /\ relaunched
    /\ stagedZip = "absent" /\ stagedTmp = "absent"

\* C28: the relauncher script is written outside the install directory,
\* whatever TEMP and TMP are.
C28_ScriptOutsideInstallDir ==
    batPath # NoPath => ~IsPrefix(BaseDir, batPath)

\* The same when TEMP, or TMP in its absence, names a directory outside the
\* install directory.
ScriptInTempWhenSet ==
    (batPath # NoPath /\ TempDirOf(env) # BaseDir) => ~IsPrefix(BaseDir, batPath)

ScriptInInstallDir ==
    /\ env = [TEMP |-> Unset, TMP |-> Unset]
    /\ batPath = BaseDir \o <<"monitor_swapper_updater.bat">>
    /\ rlPc = "exited"

\* C29: cleanup_update_artifacts returns (it never raises), it counts an
\* artifact as cleaned exactly when that artifact was there and is gone, and
\* it returns True exactly when it counted one of the two.
C29_CleanupReportsWhatItRemoved ==
    [][/\ clPc = "zip"
          => /\ clPc' = "folder"
             /\ zip_cleaned' <=> (stagedZip # "absent" /\ stagedZip' = "absent")
       /\ clPc = "folder"
          => /\ clPc' = "returned"
             /\ folder_cleaned' <=> (stagedTmp # "absent" /\ stagedTmp' = "absent")
             /\ clRet' = "True" <=> (zip_cleaned' \/ folder_cleaned')]_vars

\* The same when update_tmp is no symbolic link.
CleanupReportsUnlessLink ==
    [][/\ clPc = "zip"
          => /\ clPc' = "folder"
             /\ zip_cleaned' <=> (stagedZip # "absent" /\ stagedZip' = "absent")
       /\ (clPc = "folder" /\ stagedTmp # "link")
          => /\ clPc' = "returned"
             /\ folder_cleaned' <=> (stagedTmp # "absent" /\ stagedTmp' = "absent")
             /\ clRet' = "True" <=> (zip_cleaned' \/ folder_cleaned')]_vars

LinkReportedCleaned ==
    /\ clPc = "returned"
    /\ clRet = "True"
    /\ stagedZip = "absent" /\ ~zip_cleaned
    /\ stagedTmp = "link"

\* The test of the specification: after trimming, exactly 64 characters,
\* each of them in [0-9a-fA-F].
TrimmedIsHex64(arg) ==
    /\ arg.isStr
    /\ LET t == StripText(Expand(arg.text))
       IN /\ Len(t) = Sha256HexLen
          /\ \A i \in 1..Len(t) : t[i] \in HexDigits

\* C30: _is_valid_checksum returns True exactly for a text that, trimmed, is
\* 64 hex characters, and a candidate failing that test never becomes the
\* expected checksum, so that verification is skipped.
C30_ValidExactlyHex64 ==
    /\ csValid # "none" => (csValid = "True" <=> TrimmedIsHex64(candidate))
    /\ (csPc \in {"parsed", "verifying", "skipped"} /\ ~TrimmedIsHex64(candidate))
          => csExpected = NoExpected
    /\ (csPc \in {"verifying", "skipped"} /\ ~TrimmedIsHex64(candidate))
          => csPc = "skipped"

\* What holds: 64 hex characters are always accepted, and a candidate that
\* _is_valid_checksum turns down is never used.
Hex64AcceptedAndRejectedUnused ==
    /\ (csValid # "none" /\ TrimmedIsHex64(candidate)) => csValid = "True"
    /\ (csPc \in {"parsed", "verifying", "skipped"} /\ csValid = "False")
          => csExpected = NoExpected
    /\ (csPc \in {"verifying", "skipped"} /\ csValid = "False") => csPc = "skipped"

PrefixedTextVerified ==
    /\ csPc = "verifying"
    /\ candidate.text = <<[ch |-> "0", n |-> 1], [ch |-> "x", n |-> 1], [ch |-> "a", n |-> 62]>>
    /\ csExpected = [set |-> TRUE, text |-> candidate.text]

\* Upper-case form of a hash character.
UpperChar(c) == IF c = "a" THEN "A" ELSE IF c = "f" THEN "F" ELSE c

SameIgnoringCase(s, t) ==
    /\ Len(s) = Len(t)
    /\ \A i \in 1..Len(s) : UpperChar(s[i]) = UpperChar(t[i])

\* C31: every computation of _calculate_sha256 over the unchanged file gives
\* the same digest, in lower case, and _verify_checksum returns True exactly
\* when expected_hash is that digest up to letter case.
C31_DigestStableAndCaseInsensitive ==
    /\ \A i \in 1..Len(shDigests) :
          /\ shDigests[i] = shDigests[1]
          /\ shDigests[i] = HexDigest(shFile)
          /\ \A k \in 1..Len(shDigests[i]) : shDigests[i][k] # "F"
    /\ shRet # "none"
          => (shRet = "True" <=> SameIgnoringCase(shExpected, HexDigest(shFile)))

C31_Witness ==
    /\ shRet = "True"
    /\ Len(shDigests) = MaxCalls
    /\ Len(shFile) > ReadSize
    /\ shExpected # LowerText(shExpected)

\* The host of a network location: the location without its port.
HostOf(netloc) ==
    IF netloc # <<>> /\ netloc[Len(netloc)] = ":443"
    THEN SubSeq(netloc, 1, Len(netloc) - 1) ELSE netloc

\* The host is the domain or a dot-separated subdomain of it.
HostWithin(host, domain) ==
    \/ host = domain
    \/ /\ Len(host) > Len(domain) + 1
       /\ EndsWith(host, <<".">> \o domain)

GithubHosted(url) ==
    /\ url.kind = "str"
    /\ url.scheme = "https"
    /\ \/ HostWithin(HostOf(url.netloc), GithubCom)
       \/ HostWithin(HostOf(url.netloc), GithubusercontentCom)
    /\ url.path \notin {"", "/"}

\* C32: _is_valid_url returns True only for an https URL whose host is
\* github.com, githubusercontent.com or a subdomain of one of them and whose
\* path is neither empty nor "/", and False for every other argument.
C32_ValidUrlIsGithubHosted ==
    urlRet # "none" => (urlRet = "True" => GithubHosted(urlArg))

\* What holds: the scheme and the path are as stated, None, "" and values
\* that are no str are refused, and the hosts named are accepted.
ValidUrlSchemeAndPath ==
    urlRet # "none"
       => /\ urlRet = "True"
               => /\ urlArg.kind = "str"
                  /\ urlArg.scheme = "https"
                  /\ urlArg.path \notin {"", "/"}
          /\ (GithubHosted(urlArg) /\ HostOf(urlArg.netloc) = urlArg.netloc)
               => urlRet = "True"

LookalikeHostAccepted ==
    /\ urlRet = "True"
    /\ urlArg.netloc = <<"evil", "github", ".", "com">>

\* Call i of the log is an acquire() that returned ret.
Acquired(i, ret) == mxLog[i].op = "acquire" /\ mxLog[i].ret = ret

\* Before call i, object o holds its mutex: an acquire() of o returned True
\* and o has not called release() since.
HoldsBefore(o, i) ==
    \E j \in 1..(i - 1) :
        /\ mxLog[j].obj = o
        /\ Acquired(j, "True")
        /\ \A k \in (j + 1)..(i - 1) : ~(mxLog[k].obj = o /\ mxLog[k].op = "release")

\* C33: while an object holds the mutex of a name, acquire() on another
\* object of that name returns False, and what happened to other names has
\* no part in it: the first acquire() on a name returns True.
C33_HeldMutexExcludesOthers ==
    \A i \in 1..Len(mxLog) :
        mxLog[i].op = "acquire"
           => /\ (\E o \in MutexObjects \ {mxLog[i].obj} :
                     mxName[o] = mxName[mxLog[i].obj] /\ HoldsBefore(o, i))
                 => mxLog[i].ret = "False"
              /\ (\A j \in 1..(i - 1) :
                     mxLog[j].op = "acquire" => mxName[mxLog[j].obj] # mxName[mxLog[i].obj])
                 => mxLog[i].ret = "True"

C33_Witness ==
    \E i, j \in 1..Len(mxLog) :
        /\ i > 1 /\ j > 1
        /\ Acquired(i, "False")
        /\ \E o \in MutexObjects : HoldsBefore(o, i) /\ mxName[o] = mxName[mxLog[i].obj]
        /\ Acquired(j, "True")
        /\ \E o \in MutexObjects : HoldsBefore(o, j) /\ mxName[o] # mxName[mxLog[j].obj]

\* Before call i, the mutex of name n has been held and released, and no
\* object holds it.
ReleasedBefore(n, i) ==
    /\ \E j \in 1..(i - 1), k \in 1..(i - 1) :
          /\ j < k
          /\ Acquired(j, "True")
          /\ mxName[mxLog[j].obj] = n
          /\ mxLog[k].op = "release"
          /\ mxLog[k].obj = mxLog[j].obj
    /\ \A o \in MutexObjects : mxName[o] = n => ~HoldsBefore(o, i)

\* C34: once the holder of the mutex of a name has called release(), the
\* next acquire() on that name returns True.
C34_AcquireAfterReleaseSucceeds ==
    \A i \in 1..Len(mxLog) :
        (mxLog[i].op = "acquire" /\ ReleasedBefore(mxName[mxLog[i].obj], i))
           => mxLog[i].ret = "True"

\* Before call i, no acquire() on name n has returned False.
NoStrayHandleBefore(n, i) ==
    \A j \in 1..(i - 1) :
        (mxLog[j].op = "acquire" /\ mxName[mxLog[j].obj] = n) => mxLog[j].ret = "True"

\* What holds: the same when no acquire() on the name has failed before.
AcquireAfterReleaseUnlessFailedBefore ==
    \A i \in 1..Len(mxLog) :
        (/\ mxLog[i].op = "acquire"
         /\ ReleasedBefore(mxName[mxLog[i].obj], i)
         /\ NoStrayHandleBefore(mxName[mxLog[i].obj], i))
           => mxLog[i].ret = "True"

FailedAcquireBlocksLater ==
    /\ Len(mxLog) = 4
    /\ Acquired(1, "True")
    /\ Acquired(2, "False") /\ mxLog[2].obj # mxLog[1].obj
    /\ mxLog[3].op = "release" /\ mxLog[3].obj = mxLog[1].obj
    /\ Acquired(4, "False")

\* What the specification asks of one setting: a value that is a number
\* gives its whole part, kept within 0..100, and a missing, non-numeric,
\* infinite or NaN value gives 50; a str that spells a number is left open.
SettingAsSpecified(value, out) ==
    /\ out \in 0..100
    /\ value.t \in {"int", "float"}
          => \/ value.v < 0 /\ out = 0
             \/ value.v > 1000 /\ out = 100
             \/ value.v \in 0..1000 /\ out * 10 <= value.v /\ value.v < out * 10 + 10
    /\ value.t \in {"missing", "None", "word", "inf", "nan"} => out = 50

ModeAsSpecified(mode, out) ==
    /\ DOMAIN out = {"brightness", "contrast"}
    /\ out.brightness \in 0..100
    /\ out.contrast \in 0..100
    /\ mode.kind # "non-dict"
          => /\ SettingAsSpecified(mode.brightness, out.brightness)
             /\ SettingAsSpecified(mode.contrast, out.contrast)

\* C35: for every config validate_config returns, for game_mode and
\* desktop_mode, a brightness and a contrast that are integers in 0..100,
\* clamped, truncated or replaced by 50 as the value asks.
C35_SettingsWithinRange ==
    cfgOut # NoOutcome
       => /\ cfgOut.raised = "no"
          /\ ModeAsSpecified(cfgIn.game_mode, cfgOut.game_mode)
          /\ ModeAsSpecified(cfgIn.desktop_mode, cfgOut.desktop_mode)

\* What holds: the same for every config that is a dict.
SettingsWithinRangeForDict ==
    (cfgOut # NoOutcome /\ cfgIn.isDict)
       => /\ cfgOut.raised = "no"
          /\ ModeAsSpecified(cfgIn.game_mode, cfgOut.game_mode)
          /\ ModeAsSpecified(cfgIn.desktop_mode, cfgOut.desktop_mode)

ConfigNoDictRaises ==
    /\ ~cfgIn.isDict
    /\ cfgOut.raised = "AttributeError"

ClampedAndTruncated ==
    /\ cfgOut.raised = "no"
    /\ cfgIn.game_mode.kind = "dict"
    /\ cfgIn.game_mode.brightness = [t |-> "float", v |-> 1005]
    /\ cfgOut.game_mode.brightness = 100
    /\ cfgIn.game_mode.contrast = [t |-> "float", v |-> -5]
    /\ cfgOut.game_mode.contrast = 0

\* The name is not empty and every character of it is "/" or "\".
SeparatorsOnly(m) ==
    /\ m.drive = ""
    /\ Len(m.parts) >= 2
    /\ \A i \in 1..Len(m.parts) : m.parts[i] = ""

\* C36: a member whose name is empty or made of separators only, or that is
\* marked as a symbolic link, is rejected with PathTraversalError at its own
\* position and is not extracted.
C36_BadNamesAndLinksRejected ==
    (exLast.verdict # "none"
        /\ (FileName(exLast.m) = "" \/ SeparatorsOnly(exLast.m) \/ exLast.m.symlink))
       => /\ exLast.verdict = "traversal"
          /\ exStatus = "traversal"
          /\ exRejected = exPos
          /\ exCount = exPos - 1

C36_Witness ==
    /\ exStatus = "traversal"
    /\ exLast.m.symlink
    /\ exLast.m.drive = "" /\ exLast.m.parts = <<"a", "b">>
    /\ exCount > 0

C36_WitnessSeparators ==
    /\ exStatus = "traversal"
    /\ SeparatorsOnly(exLast.m)
    /\ ~exLast.m.symlink

\* Line i of the sidecar is accepted for the package: it is a bare hash, or
\* the package's name appears in it.
AcceptedLine(i) ==
    \/ scLines[i].kind = "bare"
    \/ scLines[i].kind = "named" /\ NameIn(scAsset, scLines[i].file)

WellFormedLine(i) == scLines[i].sum.val \in Digests

\* C37: when the sidecar holds an accepted line with a well-formed hash, the
\* expected checksum is the hash of such a line.
C37_AcceptedHashIsExpected ==
    (scPc = "parsed" /\ \E i \in 1..Len(scLines) : AcceptedLine(i) /\ WellFormedLine(i))
       => \E i \in 1..Len(scLines) :
             AcceptedLine(i) /\ WellFormedLine(i) /\ scExpected = scLines[i].sum

\* What holds: the first accepted line decides, and its hash is the expected
\* checksum when it is well formed.
FirstAcceptedLineDecides ==
    scPc = "parsed"
       => \A i \in 1..Len(scLines) :
             (AcceptedLine(i) /\ \A j \in 1..(i - 1) : ~AcceptedLine(j))
                => scExpected = IF WellFormedLine(i) THEN scLines[i].sum ELSE NoChecksum

MalformedLineHidesLater ==
    /\ scPc = "parsed"
    /\ Len(scLines) = 2
    /\ AcceptedLine(1) /\ ~WellFormedLine(1)
    /\ AcceptedLine(2) /\ WellFormedLine(2)
    /\ scLines[2].kind = "named"
    /\ scExpected = NoChecksum

\* C38: perform_update ends by returning a boolean or by exiting after the
\* launch; no exception leaves it.
C38_NoExceptionPropagates == pc # "raised" /\ result # "raised"

\* The assets of the release are a list of dicts in which every name is a
\* str (or missing) and no ".zip" asset lacks its browser_download_url.
ListOfUsableAssets(r) ==
    /\ r.assets.kind # "null"
    /\ \A i \in 1..Len(r.assets.items) :
          LET a == r.assets.items[i] IN
          /\ a.isDict
          /\ a.name # NonString
          /\ (a.name # Missing /\ EndsWithZip(a.name) /\ ~IsChecksumName(a.name))
                => a.url # Missing

\* What holds: an exception leaves perform_update from the asset loop only,
\* and never for a release whose assets are such a list.
OnlyAssetLoopRaises ==
    [][pc' = "raised" => (pc = "resolve" /\ ~ListOfUsableAssets(release))]_vars

AssetLoopRaised ==
    /\ pc = "raised"
    /\ failedAt = "resolve"
    /\ stages = <<"validate", "writable", "diskspace", "resolve">>

\* C39: a run_check thread that ends has released update_lock, whichever way
\* its run went, and a trigger is dropped only while another run is in
\* flight: one issued after the runs have ended is served.
C39_LockReleasedOnEveryExit ==
    [][/\ \A w \in Workers :
             (worker[w] \in InRun /\ worker'[w] \notin InRun)
                => (worker'[w] = "ended" /\ ~updateLock')
       /\ \A w \in Workers :
             (worker[w] = "start" /\ worker'[w] = "dropped")
                => \E v \in Workers \ {w} : worker[v] \in InRun]_vars

C39_Witness ==
    /\ handoff
    /\ \E w \in Workers : worker[w] = "ended" /\ w \in ran
    /\ \E v \in Workers : worker[v] = "check"

\* Once the relauncher is launched, the run has gone through every stage in
\* order without a failure: the package was a readable zip, a verification
\* that ran found no mismatch, safe_extract returned with no member
\* rejected, and the extraction directory holds something.
LaunchedAfterAllStages ==
    batLaunched
       => /\ StagesOrdered
          /\ {"validate", "resolve", "download", "extract", "flatten", "script", "launch"}
                \subseteq Range(stages)
          /\ failedAt = "none"
          /\ IsZipFile(zipBody)
          /\ ("verify" \in Range(stages) => ~mismatch)
          /\ exStatus = "returned" /\ exRejected = 0
          /\ TopLevel(tree) # {}

\* No stage is left for the next one with its check failed.
GatePassed ==
    /\ pc = "resolve" /\ pc' \notin {"returned", "raised"}
          => plan'.asset_url # None /\ IsValidUrl(plan'.asset_url)
    /\ pc = "download" /\ pc' = "extract" => plan.expected_checksum = NoChecksum
    /\ pc = "verify" /\ pc' = "extract" => ~mismatch'
    /\ pc \in {"returned", "raised", "exited"} => pc' = pc

\* C40: the relauncher script is launched only in a run in which the release
\* data was valid, the package URL passed _is_valid_url, the download was a
\* valid zip, no expected checksum was set or the digest matched, every
\* member passed safe_extract and the extraction directory was not empty
\* after flattening.
C40_LaunchOnlyAfterAllChecks ==
    /\ [](LaunchedAfterAllStages)
    /\ [][GatePassed /\ (pc = "validate" /\ pc' # "returned" => ~Malformed(release))]_vars

\* What holds: the same with the release data being what
\* _validate_release_data accepts.
LaunchOnlyAfterCodeChecks ==
    /\ [](LaunchedAfterAllStages)
    /\ [][GatePassed
          /\ (pc = "validate" /\ pc' # "returned" => ValidateReleaseData(release))]_vars

NewlineTagPassedValidation ==
    /\ pc = "writable"
    /\ release.tag = "v2.0.0\n"

LaunchedAfterVerification ==
    /\ batLaunched
    /\ "verify" \in Range(stages)
    /\ exCount > 1
    /\ flRet = "True"

====
